---- MODULE Spec2Model ----
(***************************************************************************)
(* A model of latchkey's credential-acquisition engine:                    *)
(*   - ServiceSession.login and its subclasses (services/base.py,          *)
(*     services/github.py, services/linear.py, services/dropbox.py),       *)
(*   - the curl command of the command line (cli.py),                      *)
(*   - the credential store document (api_credential_store.py).            *)
(*                                                                         *)
(* An "attempt" is one control flow running the curl command.  The state   *)
(* of every attempt is a record proc[p]; session objects live in a heap    *)
(* sess, indexed by the identity get_session() gives the object; the store *)
(* document and the persistent browser-state file are shared files.        *)
(*                                                                         *)
(* The browser runtime (Playwright) is the environment: the user may close *)
(* the headful browser at any moment it is open (UserClose), responses are *)
(* delivered to the page's "response" callback while the main flow is      *)
(* inside a Playwright call (OnResponse), and every Playwright call on a   *)
(* closed page raises TargetClosedError.                                   *)
(*                                                                         *)
(* Two more behaviours drive parts of the program on their own: obs is one *)
(* traffic observer fed a sequence of traffic events (ObserverSpec), and   *)
(* call is a client of the store's get, save and delete and of the status  *)
(* command (StoreSpec).  ops holds the store operations of two processes   *)
(* on one file, step by step (StoreRaceSpec), and reg a registry and the   *)
(* last lookup made in it (RegistrySpec).                                  *)
(***************************************************************************)
EXTENDS Naturals, FiniteSets, Sequences, TLC

VARIABLES proc, sess, storeFile, stateFile, obs, call, ops, reg

vars == <<proc, sess, storeFile, stateFile, obs, call, ops, reg>>

(***************************************************************************)
(* Bounds of the model.                                                    *)
(***************************************************************************)
\* Responses delivered to one attempt's page.
MaxResponses == 2
\* Iterations of the polling loop that are counted (the loop itself is unbounded).
MaxPolls == 2
\* Traffic events delivered to the observer of ObserverSpec.
MaxEvents == 3
\* Calls the client of StoreSpec makes.
MaxCalls == 3

Procs == {"p1", "p2"}

(***************************************************************************)
(* Credentials (api_credentials.py).                                       *)
(***************************************************************************)
\* A token is text, a sequence of pieces.
Tokens == {<<"t1">>, <<"t2">>}

\* Python's None where an ApiCredentials object is expected.
NoCred == [cls |-> "NoneType", object_type |-> "None", token |-> <<>>]

\* A model object: its class, and its fields, object_type among them.
AuthorizationBearer(t) ==
    [cls |-> "AuthorizationBearer", object_type |-> "authorization_bearer", token |-> t]

AuthorizationBare(t) ==
    [cls |-> "AuthorizationBare", object_type |-> "authorization_bare", token |-> t]

Creds == {AuthorizationBearer(t) : t \in Tokens} \cup {AuthorizationBare(t) : t \in Tokens}

(***************************************************************************)
(* Services and their session types.                                       *)
(*   simple   : a subclass of SimpleServiceSession                         *)
(*   followup : a subclass of BrowserFollowupServiceSession that uses the  *)
(*              whole contract of _perform_browser_followup                *)
(*   github, linear, dropbox : the sessions of those modules               *)
(***************************************************************************)
Kinds == {"simple", "followup", "github", "linear", "dropbox"}

FollowupKinds == {"followup", "github", "linear"}

\* Service.login_instructions is None unless the service overrides it; the
\* GitHub, Linear and Dropbox services do not.
InstructionChoices(k) == IF k \in {"github", "linear", "dropbox"} THEN {FALSE} ELSE BOOLEAN

(***************************************************************************)
(* Session objects: the private attributes of the session classes.         *)
(***************************************************************************)
\* A session as its constructor leaves it (the PrivateAttr defaults).  The csrf
\* token is a piece of a Cookie header, never empty, and <<>> stands for None.
NewSession ==
    [api_credentials |-> NoCred,
     is_logged_in    |-> FALSE,
     csrf_token      |-> <<>>,
     cookies         |-> <<>>,
     has_cookies     |-> FALSE]

GITHUB_NEW_TOKEN_URL == "https://github.com/settings/tokens/new"

LINEAR_GRAPHQL_URL == "https://client-api.linear.app/graphql"

\* What SimpleServiceSession._get_api_credentials_from_response (abstract) makes
\* of a response: a credential, or None.
SimpleEvents == [cred : {NoCred, AuthorizationBearer(<<"t1">>), AuthorizationBearer(<<"t2">>)}]

\* What the observer of a generic follow-up session makes of a response.
FollowupEvents == [logged_in : BOOLEAN]

GithubEvents == [url : {GITHUB_NEW_TOKEN_URL, "https://github.com/login"}, status : {200, 302}]

\* json.ok is FALSE when response.json() raises; json.data are the keys of "data".
LinearEvents ==
    { [url |-> LINEAR_GRAPHQL_URL, method |-> "POST", status |-> 200, json |-> [ok |-> TRUE, data |-> {"organizationMeta", "viewer"}]],
      [url |-> LINEAR_GRAPHQL_URL, method |-> "POST", status |-> 200, json |-> [ok |-> TRUE, data |-> {"organizationMeta"}]],
      [url |-> LINEAR_GRAPHQL_URL, method |-> "POST", status |-> 200, json |-> [ok |-> TRUE, data |-> {}]],
      [url |-> LINEAR_GRAPHQL_URL, method |-> "POST", status |-> 200, json |-> [ok |-> FALSE, data |-> {}]],
      [url |-> LINEAR_GRAPHQL_URL, method |-> "POST", status |-> 500, json |-> [ok |-> TRUE, data |-> {"viewer"}]],
      [url |-> LINEAR_GRAPHQL_URL, method |-> "GET", status |-> 200, json |-> [ok |-> TRUE, data |-> {"viewer"}]],
      [url |-> "https://linear.app/login", method |-> "POST", status |-> 200, json |-> [ok |-> TRUE, data |-> {"viewer"}]] }

\* A Cookie header ("n1=v1; n2=v2") is a sequence of pieces of text: the
\* separators "=", ";" and " ", and pieces that hold none of them.
CookieHeaders ==
    { <<>>,
      <<"__Host-js_csrf", "=", "k1">>,
      <<"jar", "=", "j1">>,
      <<"t", "=", "x", ";", " ", "__Host-js_csrf", "=", "k1", ";", " ", "jar", "=", "j1">>,
      <<"__Host-js_csrf", "=", "k2", ";", " ", "jar", "=", "j2">>,
      <<"__Host-js_csrf", "=", "k1", ";", " ", "x", "jar", "=", "j1">> }

DropboxEvents ==
    [inDomain : BOOLEAN, hasCookie : BOOLEAN, cookie : CookieHeaders]

\* re.search(r"__Host-js_csrf=([^;]+)", cookie_header): the position of the
\* leftmost match, 0 when there is none.
RECURSIVE CsrfMatch(_, _)
CsrfMatch(h, i) ==
    IF i + 2 > Len(h) THEN 0
    ELSE IF h[i] = "__Host-js_csrf" /\ h[i + 1] = "=" /\ h[i + 2] # ";" THEN i
    ELSE CsrfMatch(h, i + 1)

\* The end of the longest run without ";" that starts at position j.
RECURSIVE RunEnd(_, _)
RunEnd(h, j) ==
    IF j + 1 > Len(h) THEN j
    ELSE IF h[j + 1] = ";" THEN j
    ELSE RunEnd(h, j + 1)

\* csrf_match.group(1)
CsrfGroup(h) ==
    LET i == CsrfMatch(h, 1) IN SubSeq(h, i + 2, RunEnd(h, i + 2))

\* "jar=" in cookie_header
HasJar(h) == \E i \in 1..Len(h) : h[i] = "jar" /\ i + 1 <= Len(h) /\ h[i + 1] = "="

\* An observer that keeps the last credential seen instead of the first.
SimpleOnResponseLastWins(s, ev) ==
    IF ev.cred = NoCred THEN s ELSE [s EXCEPT !.api_credentials = ev.cred]

SimpleOnResponse(s, ev) ==
    IF s.api_credentials # NoCred THEN s
    ELSE [s EXCEPT !.api_credentials = ev.cred]

FollowupOnResponse(s, ev) ==
    IF s.is_logged_in THEN s
    ELSE [s EXCEPT !.is_logged_in = ev.logged_in]

\* A GitHub observer that takes any response of the new-token page for a login.
GithubOnResponseAnyStatus(s, ev) ==
    IF s.is_logged_in THEN s
    ELSE IF ev.url = GITHUB_NEW_TOKEN_URL THEN [s EXCEPT !.is_logged_in = TRUE]
    ELSE s

GithubOnResponse(s, ev) ==
    IF s.is_logged_in THEN s
    ELSE IF ev.url = GITHUB_NEW_TOKEN_URL /\ ev.status = 200
         THEN [s EXCEPT !.is_logged_in = TRUE]
         ELSE s

\* An on_response that takes the answer of the latest GraphQL request.
LinearOnResponseLatest(s, ev) ==
    IF ev.url = LINEAR_GRAPHQL_URL /\ ev.method = "POST" /\ ev.status = 200
    THEN IF ~ev.json.ok THEN s
         ELSE [s EXCEPT !.is_logged_in = \E key \in ev.json.data : key # "organizationMeta"]
    ELSE s

LinearOnResponse(s, ev) ==
    IF s.is_logged_in THEN s
    ELSE IF ev.url = LINEAR_GRAPHQL_URL /\ ev.method = "POST" /\ ev.status = 200
         THEN IF ~ev.json.ok THEN s
              ELSE IF \E key \in ev.json.data : key # "organizationMeta"
                   THEN [s EXCEPT !.is_logged_in = TRUE]
                   ELSE s
         ELSE s

\* A Dropbox observer that keeps capturing after the login was detected.
DropboxOnResponseRecaptures(s, ev) ==
    IF ~ev.inDomain THEN s
    ELSE IF ~ev.hasCookie THEN s
    ELSE IF CsrfMatch(ev.cookie, 1) = 0 THEN s
    ELSE IF ~HasJar(ev.cookie) THEN s
    ELSE [s EXCEPT !.csrf_token = CsrfGroup(ev.cookie),
                   !.cookies = ev.cookie,
                   !.has_cookies = TRUE,
                   !.is_logged_in = TRUE]

DropboxOnResponse(s, ev) ==
    IF s.is_logged_in THEN s
    ELSE IF ~ev.inDomain THEN s
    ELSE IF ~ev.hasCookie THEN s
    ELSE IF CsrfMatch(ev.cookie, 1) = 0 THEN s
    ELSE IF ~HasJar(ev.cookie) THEN s
    ELSE [s EXCEPT !.csrf_token = CsrfGroup(ev.cookie),
                   !.cookies = ev.cookie,
                   !.has_cookies = TRUE,
                   !.is_logged_in = TRUE]

EventsOf(k) ==
    CASE k = "simple"   -> SimpleEvents
      [] k = "followup" -> FollowupEvents
      [] k = "github"   -> GithubEvents
      [] k = "linear"   -> LinearEvents
      [] k = "dropbox"  -> DropboxEvents

\* session.on_response(response), dispatched on the session's class.
OnResponseOf(k, s, ev) ==
    CASE k = "simple"   -> SimpleOnResponse(s, ev)
      [] k = "followup" -> FollowupOnResponse(s, ev)
      [] k = "github"   -> GithubOnResponse(s, ev)
      [] k = "linear"   -> LinearOnResponse(s, ev)
      [] k = "dropbox"  -> DropboxOnResponse(s, ev)

\* session._is_headful_login_complete()
IsHeadfulLoginComplete(k, s) ==
    IF k = "simple" THEN s.api_credentials # NoCred ELSE s.is_logged_in

(***************************************************************************)
(* Text.  A string the code takes apart is a sequence of pieces: characters *)
(* for header values, path pieces for URLs.                                *)
(***************************************************************************)
\* str.startswith
StartsWith(u, prefix) ==
    Len(u) >= Len(prefix) /\ SubSeq(u, 1, Len(prefix)) = prefix

\* str.lower, on the characters of the model's header values
Lower(u) == [i \in 1..Len(u) |-> IF u[i] = "B" THEN "b" ELSE u[i]]

\* The first position from i on that holds no blank, Len(u) + 1 when there is none.
RECURSIVE SkipBlanks(_, _)
SkipBlanks(u, i) ==
    IF i > Len(u) THEN i
    ELSE IF u[i] = " " THEN SkipBlanks(u, i + 1)
    ELSE i

\* The last position up to i that holds no blank, 0 when there is none.
RECURSIVE SkipBlanksBack(_, _)
SkipBlanksBack(u, i) ==
    IF i = 0 THEN 0
    ELSE IF u[i] = " " THEN SkipBlanksBack(u, i - 1)
    ELSE i

\* str.strip
Strip(u) == SubSeq(u, SkipBlanks(u, 1), SkipBlanksBack(u, Len(u)))

BearerPrefix == <<"B", "e", "a", "r", "e", "r", " ">>

\* A prefix removal that leaves the blank after the scheme in the token.
DropBearerShort(token) ==
    IF StartsWith(Lower(token), Lower(BearerPrefix)) THEN SubSeq(token, 7, Len(token)) ELSE token

\* if token.lower().startswith("bearer "): token = token[7:]
DropBearer(token) ==
    IF StartsWith(Lower(token), Lower(BearerPrefix)) THEN SubSeq(token, 8, Len(token)) ELSE token

\* Python's None where a str is expected, and a str.
NoStr == [some |-> FALSE, v |-> <<>>]

Str(v) == [some |-> TRUE, v |-> v]

(***************************************************************************)
(* The request observers of the Discord, Slack and Notion services.        *)
(***************************************************************************)
DISCORD_API == <<"https://discord.com/", "api/">>

SLACK_API == <<"https://slack.com/", "api/">>

SLACK_EDGE_API == <<"https://edgeapi.slack.com/">>

NOTION_SO_API == <<"https://www.notion.so/", "api/">>

NOTION_API == <<"https://api.notion.com/">>

\* Values of an authorization header: schemes with a token, blank values, a bare token.
AuthTokens == {<<"a">>, <<"x", "y">>, <<>>}

AuthValues ==
    {BearerPrefix \o t : t \in AuthTokens}
    \cup { <<"b", "e", "a", "r", "e", "r", " ", "c">>, <<"a">>, <<>>, <<" ">> }

\* headers.get("authorization") is None when hasAuth is FALSE.
DiscordEvents ==
    [url : {DISCORD_API \o <<"v9/users/@me">>, <<"https://discord.com/", "login">>},
     hasAuth : {TRUE}, authorization : AuthValues]
    \cup [url : {DISCORD_API \o <<"v9/users/@me">>}, hasAuth : {FALSE}, authorization : {<<>>}]

NotionEvents ==
    [url : {NOTION_SO_API \o <<"v3/getSpaces">>, NOTION_API \o <<"v1/users/me">>},
     hasAuth : {TRUE}, authorization : {BearerPrefix \o <<"a">>, BearerPrefix \o <<"x", "y">>, <<" ">>}]
    \cup [url : {<<"https://www.notion.so/", "login">>}, hasAuth : {TRUE}, authorization : {BearerPrefix \o <<"a">>}]
    \cup [url : {NOTION_API \o <<"v1/users/me">>}, hasAuth : {FALSE}, authorization : {<<>>}]

\* Cookie headers of Slack requests, in pieces as for Dropbox, "-" being a
\* character that is no word character.
SlackCookieHeaders ==
    { <<"d", "=", "c1">>,
      <<"x", "=", "1", ";", " ", "d", "=", "c2", ";", " ", "y", "=", "2">>,
      <<"x", "d", "=", "c3">> }

SlackEvents ==
    [url : {SLACK_API \o <<"auth.test">>, SLACK_EDGE_API \o <<"cache">>},
     hasAuth : BOOLEAN, authorization : {BearerPrefix \o <<"a">>, BearerPrefix \o <<"x", "y">>},
     hasCookie : BOOLEAN, cookie : {<<"d", "=", "c1">>}]
    \cup [url : {SLACK_API \o <<"auth.test">>, <<"https://slack.com/", "signin">>},
          hasAuth : {TRUE}, authorization : {BearerPrefix \o <<"a">>},
          hasCookie : {TRUE}, cookie : SlackCookieHeaders]
    \cup [url : {SLACK_API \o <<"auth.test">>},
          hasAuth : {TRUE}, authorization : {<<" ">>},
          hasCookie : BOOLEAN, cookie : {<<"d", "=", "c1">>}]

\* re.search(r"\bd=([^;]+)", cookie_header): the position of the leftmost match,
\* 0 when there is none.  A word boundary stands before "d" at the start of the
\* header and after a separator.
RECURSIVE DCookieMatch(_, _)
DCookieMatch(h, i) ==
    IF i + 2 > Len(h) THEN 0
    ELSE IF /\ h[i] = "d" /\ h[i + 1] = "=" /\ h[i + 2] # ";"
            /\ (i = 1 \/ h[i - 1] \in {";", " ", "=", "-"})
         THEN i
    ELSE DCookieMatch(h, i + 1)

\* match.group(1)
DCookieGroup(h) ==
    LET i == DCookieMatch(h, 1) IN SubSeq(h, i + 2, RunEnd(h, i + 2))

\* A service object before any request was observed (the class attributes).
NewService == [captured_token |-> NoStr, captured_d_cookie |-> NoStr]

\* A Discord observer that keeps the last token seen.
DiscordOnRequestLastWins(s, ev) ==
    IF ~StartsWith(ev.url, DISCORD_API) THEN s
    ELSE IF ev.hasAuth /\ Strip(ev.authorization) # <<>>
         THEN [s EXCEPT !.captured_token = Str(ev.authorization)]
         ELSE s

\* Discord.on_request
DiscordOnRequest(s, ev) ==
    IF s.captured_token # NoStr THEN s
    ELSE IF ~StartsWith(ev.url, DISCORD_API) THEN s
    ELSE IF ev.hasAuth /\ Strip(ev.authorization) # <<>>
         THEN [s EXCEPT !.captured_token = Str(ev.authorization)]
         ELSE s

\* An on_request that takes the header of a request to any URL.
NotionOnRequestAnyUrl(s, ev) ==
    IF s.captured_token # NoStr THEN s
    ELSE IF ev.hasAuth /\ Strip(ev.authorization) # <<>>
         THEN [s EXCEPT !.captured_token = Str(DropBearer(ev.authorization))]
         ELSE s

\* Notion.on_request
NotionOnRequest(s, ev) ==
    IF s.captured_token # NoStr THEN s
    ELSE IF ~StartsWith(ev.url, NOTION_SO_API) /\ ~StartsWith(ev.url, NOTION_API) THEN s
    ELSE IF ev.hasAuth /\ Strip(ev.authorization) # <<>>
         THEN [s EXCEPT !.captured_token = Str(DropBearer(ev.authorization))]
         ELSE s

\* An on_request that returns as soon as one of the two is captured.
SlackOnRequestEitherEnds(s, ev) ==
    IF s.captured_token # NoStr \/ s.captured_d_cookie # NoStr THEN s
    ELSE IF ~StartsWith(ev.url, SLACK_API) /\ ~StartsWith(ev.url, SLACK_EDGE_API) THEN s
    ELSE [s EXCEPT !.captured_token =
                       IF ev.hasAuth /\ Strip(ev.authorization) # <<>>
                       THEN Str(DropBearer(ev.authorization)) ELSE NoStr,
                   !.captured_d_cookie =
                       IF ev.hasCookie /\ DCookieMatch(ev.cookie, 1) # 0
                       THEN Str(DCookieGroup(ev.cookie)) ELSE NoStr]

\* Slack.on_request
SlackOnRequest(s, ev) ==
    IF s.captured_token # NoStr /\ s.captured_d_cookie # NoStr THEN s
    ELSE IF ~StartsWith(ev.url, SLACK_API) /\ ~StartsWith(ev.url, SLACK_EDGE_API) THEN s
    ELSE LET token ==
                 IF s.captured_token = NoStr /\ ev.hasAuth /\ Strip(ev.authorization) # <<>>
                 THEN Str(DropBearer(ev.authorization))
                 ELSE s.captured_token
             d_cookie ==
                 IF s.captured_d_cookie = NoStr /\ ev.hasCookie /\ DCookieMatch(ev.cookie, 1) # 0
                 THEN Str(DCookieGroup(ev.cookie))
                 ELSE s.captured_d_cookie
         IN  [s EXCEPT !.captured_token = token, !.captured_d_cookie = d_cookie]

\* slack.py, SlackCredentials (the store imports it as SlackApiCredentials)
SlackCredentials(t, d) ==
    [cls |-> "SlackApiCredentials", object_type |-> "slack", token |-> t, d_cookie |-> d]

\* notion.py, NotionCredentials (the store imports it as NotionApiCredentials)
NotionCredentials(t) ==
    [cls |-> "NotionApiCredentials", object_type |-> "notion", token |-> t]

\* as_curl_arguments of the four credential classes: the arguments are text.
AsCurlArguments(c) ==
    CASE c.cls = "AuthorizationBearer" ->
            << <<"-H">>, <<"Authorization: ">> \o BearerPrefix \o c.token >>
      [] c.cls = "AuthorizationBare" ->
            << <<"-H">>, <<"Authorization: ">> \o c.token >>
      [] c.cls = "SlackApiCredentials" ->
            << <<"-H">>, <<"Authorization: ">> \o BearerPrefix \o c.token,
               <<"-H">>, <<"Cookie: d=">> \o c.d_cookie >>
      [] c.cls = "NotionApiCredentials" ->
            << <<"-H">>, <<"Authorization: ">> \o BearerPrefix \o c.token,
               <<"-H">>, <<"Notion-Version: 2022-06-28">> >>

(***************************************************************************)
(* One observer and the traffic it is fed.                                 *)
(***************************************************************************)
RequestKinds == {"discord", "slack", "notion"}

ObserverKinds == {"simple", "github", "linear", "dropbox"} \cup RequestKinds

ObserverEvents(k) ==
    CASE k = "discord" -> DiscordEvents
      [] k = "slack"   -> SlackEvents
      [] k = "notion"  -> NotionEvents
      [] OTHER         -> EventsOf(k)

\* on_response of a session, on_request of a service.
ObserverOn(k, s, ev) ==
    CASE k = "discord" -> DiscordOnRequest(s, ev)
      [] k = "slack"   -> SlackOnRequest(s, ev)
      [] k = "notion"  -> NotionOnRequest(s, ev)
      [] OTHER         -> OnResponseOf(k, s, ev)

\* _is_headful_login_complete of a session; for a service, the condition that
\* ends the loop of wait_for_login_completed.
ObserverComplete(k, s) ==
    CASE k = "slack" -> ~(s.captured_token = NoStr \/ s.captured_d_cookie = NoStr)
      [] k \in {"discord", "notion"} -> ~(s.captured_token = NoStr)
      [] OTHER -> IsHeadfulLoginComplete(k, s)

\* extract_credentials of a service whose wait has ended.
ExtractCredentials(k, s) ==
    CASE k = "discord" -> AuthorizationBare(s.captured_token.v)
      [] k = "slack"   -> SlackCredentials(s.captured_token.v, s.captured_d_cookie.v)
      [] k = "notion"  -> NotionCredentials(s.captured_token.v)

\* No observer is driven.
NoObserver == [kind |-> "none"]

\* An observer nothing was delivered to.
Observer(k) ==
    [kind |-> k,
     state |-> IF k \in RequestKinds THEN NewService ELSE NewSession,
     events |-> <<>>, before |-> <<>>,
     cred |-> NoCred, args |-> <<>>, attempt |-> 1]

\* The runtime delivers a traffic event to the observer.
OnTraffic(ev) ==
    /\ obs.kind \in ObserverKinds
    /\ Len(obs.events) < MaxEvents
    /\ obs.cred = NoCred
    /\ obs' = [obs EXCEPT !.state = ObserverOn(obs.kind, obs.state, ev),
                          !.events = Append(obs.events, ev),
                          !.before = Append(obs.before, obs.state)]
    /\ UNCHANGED <<proc, sess, storeFile, stateFile, call, ops, reg>>

\* login_flow.login after the wait: extract_credentials, and the curl arguments
\* the credentials give.
Extract ==
    /\ obs.kind \in RequestKinds
    /\ ObserverComplete(obs.kind, obs.state)
    /\ obs.cred = NoCred
    /\ obs' = [obs EXCEPT !.cred = ExtractCredentials(obs.kind, obs.state),
                          !.args = AsCurlArguments(ExtractCredentials(obs.kind, obs.state))]
    /\ UNCHANGED <<proc, sess, storeFile, stateFile, call, ops, reg>>

(***************************************************************************)
(* Files.                                                                  *)
(***************************************************************************)
\* A storage-state snapshot: the state of attempt by's headful context after
\* n responses.  NoSnap is a file that does not exist.
Snap(p, n) == [by |-> p, n |-> n]

NoSnap == [by |-> "nobody", n |-> 0]

\* The value of a key the document does not have.
Absent == [object_type |-> "absent", token |-> <<>>]

\* Service names are the keys of the store document.
ServiceNames == Kinds

EmptyDoc == [n \in ServiceNames |-> Absent]

\* A store file that does not exist.
NoStoreFile == [exists |-> FALSE, whole |-> TRUE, doc |-> EmptyDoc]

\* ApiCredentialStore._load_store_data: json.loads raises JSONDecodeError on a
\* text that is not one whole JSON document.
LoadRaises(file) == file.exists /\ ~file.whole

\* ApiCredentialStore._load_store_data: the dict it returns.
LoadStoreData(file) == IF ~file.exists THEN EmptyDoc ELSE file.doc

\* ApiCredentialStore._save_store_data
SaveStoreData(data) == [exists |-> TRUE, whole |-> TRUE, doc |-> data]

\* Path.write_text opens the file with mode "w", which empties it, and writes
\* the text afterwards.
OpenForWriting(file) == [exists |-> TRUE, whole |-> FALSE, doc |-> EmptyDoc]

\* The text of a file two writers wrote over each other: the later text over
\* the head of the earlier one.
Overwritten(file) == [exists |-> TRUE, whole |-> FALSE, doc |-> file.doc]

\* api_credentials.model_dump(): the dict of the model's fields.
ModelDump(c) == [f \in DOMAIN c \ {"cls"} |-> c[f]]

\* The tags of ApiCredentialType.
CredentialTags == {"authorization_bearer", "authorization_bare", "notion", "slack"}

\* _get_api_credential_type, on a dict
GetApiCredentialType(value) ==
    IF "object_type" \in DOMAIN value THEN value.object_type ELSE ""

\* The class a tag of ApiCredentialType selects.
TaggedClass(tag) ==
    CASE tag = "authorization_bearer" -> "AuthorizationBearer"
      [] tag = "authorization_bare"   -> "AuthorizationBare"
      [] tag = "notion"               -> "NotionApiCredentials"
      [] tag = "slack"                -> "SlackApiCredentials"

\* The fields of a credential class without a default.
RequiredFields(cls) ==
    IF cls = "SlackApiCredentials" THEN {"token", "d_cookie"} ELSE {"token"}

\* A decoder that takes an entry it cannot place for a bearer token.
ValidatePythonDefaulting(entry) ==
    LET tag == GetApiCredentialType(entry)
        cls == IF tag \in CredentialTags THEN TaggedClass(tag) ELSE "AuthorizationBearer"
    IN  IF RequiredFields(cls) \subseteq DOMAIN entry
        THEN [ok |-> TRUE,
              value |-> [f \in {"cls", "object_type"} \cup RequiredFields(cls) |->
                            IF f = "cls" THEN cls
                            ELSE IF f = "object_type" THEN tag
                            ELSE entry[f]]]
        ELSE [ok |-> FALSE, value |-> NoCred]

\* _api_credential_type_adapter.validate_python(entry); ok is FALSE when it
\* raises.  The discriminator selects the class, the class validates the dict:
\* its required fields must be there, fields it does not have are dropped.
ValidatePython(entry) ==
    LET tag == GetApiCredentialType(entry)
    IN  IF tag \notin CredentialTags THEN [ok |-> FALSE, value |-> NoCred]
        ELSE IF ~(RequiredFields(TaggedClass(tag)) \subseteq DOMAIN entry)
             THEN [ok |-> FALSE, value |-> NoCred]
        ELSE [ok |-> TRUE,
              value |-> [f \in {"cls", "object_type"} \cup RequiredFields(TaggedClass(tag)) |->
                            IF f = "cls" THEN TaggedClass(tag) ELSE entry[f]]]

\* data[service_name] = api_credentials.model_dump(), in a store that forgets
\* the other entries.
SaveEntryAlone(data, name, c) == [EmptyDoc EXCEPT ![name] = ModelDump(c)]

\* data[service_name] = api_credentials.model_dump()
SaveEntry(data, name, c) == [data EXCEPT ![name] = ModelDump(c)]

\* del data[service_name], in a store that empties the document.
DeleteEntryAll(data, name) == EmptyDoc

\* del data[service_name]
DeleteEntry(data, name) == [data EXCEPT ![name] = Absent]

\* A get that gives None for an entry it cannot validate.
StoreGetOrNone(file, name) ==
    LET data == LoadStoreData(file)
    IN  IF data[name] = Absent \/ ~ValidatePython(data[name]).ok
        THEN [raised |-> FALSE, value |-> NoCred]
        ELSE [raised |-> FALSE, value |-> ValidatePython(data[name]).value]

\* ApiCredentialStore.get: the model, None (NoCred), or raised.
StoreGet(file, name) ==
    LET data == LoadStoreData(file)
    IN  IF data[name] = Absent THEN [raised |-> FALSE, value |-> NoCred]
        ELSE [raised |-> ~ValidatePython(data[name]).ok, value |-> ValidatePython(data[name]).value]

\* A save that writes back only the entries that validate.
StoreSaveDecodable(file, name, c) ==
    LET data == LoadStoreData(file)
        kept == [n \in ServiceNames |->
                    IF data[n] # Absent /\ ValidatePython(data[n]).ok THEN data[n] ELSE Absent]
    IN  SaveStoreData(SaveEntry(kept, name, c))

\* ApiCredentialStore.save: the file it leaves.
StoreSave(file, name, c) == SaveStoreData(SaveEntry(LoadStoreData(file), name, c))

\* A delete that rewrites the file whether or not it found the key.
StoreDeleteRewrites(file, name) ==
    LET data == LoadStoreData(file)
    IN  [found |-> data[name] # Absent, file |-> SaveStoreData(DeleteEntry(data, name))]

\* ApiCredentialStore.delete: what it returns and the file it leaves.
StoreDelete(file, name) ==
    LET data == LoadStoreData(file)
    IN  IF data[name] = Absent THEN [found |-> FALSE, file |-> file]
        ELSE [found |-> TRUE, file |-> SaveStoreData(DeleteEntry(data, name))]

\* The constructor of a credential class called with object_type=ot: the field
\* is a plain str with a default.
WithObjectType(c, ot) == [c EXCEPT !.object_type = ot]

(***************************************************************************)
(* A client of the store.                                                  *)
(***************************************************************************)
\* The keys the client uses.
StoreKeys == {"github", "linear"}

\* The models the client passes to save.
StoreModels ==
    { AuthorizationBearer(<<"t1">>), AuthorizationBearer(<<"t2">>),
      AuthorizationBare(<<"t1">>),
      SlackCredentials(<<"t1">>, <<"c1">>),
      NotionCredentials(<<"t2">>),
      WithObjectType(AuthorizationBearer(<<"t1">>), "authorization_bare"),
      WithObjectType(AuthorizationBare(<<"t2">>), "custom") }

\* Entries a document may hold that no save of this client wrote.
ForeignEntries ==
    { [token |-> <<"t1">>],
      [object_type |-> "oauth2", token |-> <<"t1">>],
      [object_type |-> "slack", token |-> <<"t1">>] }

\* No client is running.
NoClient == [on |-> FALSE]

\* The client before its first call; last is, for every key, the last save or
\* delete the client made on it.
Client ==
    [on |-> TRUE, n |-> 0, op |-> "none", name |-> "none", model |-> NoCred,
     value |-> NoCred, raised |-> FALSE, found |-> FALSE,
     before |-> NoStoreFile,
     last |-> [k \in StoreKeys |-> [op |-> "none", model |-> NoCred]],
     storeOn |-> TRUE, http |-> "none", out |-> "", exit |-> "none", checked |-> FALSE]

Get(name) ==
    /\ call.on /\ call.n < MaxCalls
    /\ call' = [call EXCEPT !.n = call.n + 1, !.op = "get", !.name = name, !.model = NoCred,
                            !.value = StoreGet(storeFile, name).value,
                            !.raised = StoreGet(storeFile, name).raised,
                            !.found = FALSE,
                            !.before = storeFile]
    /\ UNCHANGED <<proc, sess, storeFile, stateFile, obs, ops, reg>>

Save(name, c) ==
    /\ call.on /\ call.n < MaxCalls
    /\ storeFile' = StoreSave(storeFile, name, c)
    /\ call' = [call EXCEPT !.n = call.n + 1, !.op = "save", !.name = name, !.model = c,
                            !.value = NoCred, !.raised = FALSE, !.found = FALSE,
                            !.before = storeFile,
                            !.last[name] = [op |-> "save", model |-> c]]
    /\ UNCHANGED <<proc, sess, stateFile, obs, ops, reg>>

Delete(name) ==
    /\ call.on /\ call.n < MaxCalls
    /\ storeFile' = StoreDelete(storeFile, name).file
    /\ call' = [call EXCEPT !.n = call.n + 1, !.op = "delete", !.name = name, !.model = NoCred,
                            !.value = NoCred, !.raised = FALSE,
                            !.found = StoreDelete(storeFile, name).found,
                            !.before = storeFile,
                            !.last[name] = [op |-> "delete", model |-> NoCred]]
    /\ UNCHANGED <<proc, sess, stateFile, obs, ops, reg>>

(***************************************************************************)
(* Store operations of two processes, step by step.                        *)
(***************************************************************************)
StoreProcs == {"a", "b"}

\* The calls a process may make.
RaceCalls ==
    [op : {"get", "delete"}, name : StoreKeys, model : {NoCred}]
        \cup [op : {"save"}, name : StoreKeys,
              model : {AuthorizationBearer(<<"t1">>), AuthorizationBare(<<"t2">>)}]

\* No process is running a store operation.
NoOps == [on |-> FALSE]

\* A process about to make call r.
StoreOp(r) ==
    [pc |-> "start", op |-> r.op, name |-> r.name, model |-> r.model,
     data |-> EmptyDoc, seen |-> NoStoreFile, value |-> NoCred,
     raised |-> "none", found |-> FALSE]

\* data = self._load_store_data(), and what get and delete do with it.
RaceLoad(c) ==
    LET o == ops[c]
        data == LoadStoreData(storeFile)
        read == [o EXCEPT !.seen = storeFile]
    IN  /\ o.pc = "start"
        /\ ops' = [ops EXCEPT ![c] =
              IF LoadRaises(storeFile)
              THEN [read EXCEPT !.pc = "raised", !.raised = "JSONDecodeError"]
              ELSE CASE o.op = "get" ->
                          IF StoreGet(storeFile, o.name).raised
                          THEN [read EXCEPT !.pc = "raised", !.raised = "ValidationError"]
                          ELSE [read EXCEPT !.pc = "done", !.value = StoreGet(storeFile, o.name).value]
                     [] o.op = "save" ->
                          [read EXCEPT !.pc = "loaded", !.data = SaveEntry(data, o.name, o.model)]
                     [] o.op = "delete" ->
                          IF data[o.name] = Absent
                          THEN [read EXCEPT !.pc = "done", !.found = FALSE]
                          ELSE [read EXCEPT !.pc = "loaded", !.found = TRUE,
                                            !.data = DeleteEntry(data, o.name)]]
        /\ UNCHANGED <<proc, sess, storeFile, stateFile, obs, call, reg>>

\* _save_store_data: write_text opens the file.
RaceOpen(c) ==
    /\ ops[c].pc = "loaded"
    /\ storeFile' = OpenForWriting(storeFile)
    /\ ops' = [ops EXCEPT ![c].pc = "opened"]
    /\ UNCHANGED <<proc, sess, stateFile, obs, call, reg>>

\* A write that reads the file again and adds its entry to what it finds.
RaceWriteMerging(c) ==
    /\ ops[c].pc = "opened"
    /\ storeFile' = SaveStoreData([storeFile.doc EXCEPT ![ops[c].name] = ops[c].data[ops[c].name]])
    /\ ops' = [ops EXCEPT ![c].pc = "done"]
    /\ UNCHANGED <<proc, sess, stateFile, obs, call, reg>>

\* _save_store_data: write_text writes the text and closes the file.  When
\* another process wrote the file since this one opened it, the two texts may
\* lie over each other.
RaceWrite(c) ==
    /\ ops[c].pc = "opened"
    /\ \/ storeFile' = SaveStoreData(ops[c].data)
       \/ storeFile.whole /\ storeFile' = Overwritten(SaveStoreData(ops[c].data))
    /\ ops' = [ops EXCEPT ![c].pc = "done"]
    /\ UNCHANGED <<proc, sess, stateFile, obs, call, reg>>

\* The process is stopped in the middle of its operation.
RaceStop(c) ==
    /\ ops[c].pc \in {"loaded", "opened"}
    /\ ops' = [ops EXCEPT ![c].pc = "stopped"]
    /\ UNCHANGED <<proc, sess, storeFile, stateFile, obs, call, reg>>

(***************************************************************************)
(* The registry of services (registry.py).  A name is a sequence of        *)
(* characters, a URL a sequence of pieces.                                 *)
(***************************************************************************)
\* The largest number of services of a registry.
MaxServices == 2

\* What get_by_url and get_by_name return when they return None.
NoService == [name |-> <<>>, base_api_urls |-> <<>>, none |-> TRUE]

Service(name, urls) == [name |-> name, base_api_urls |-> urls, none |-> FALSE]

RegistryNames == {<<"b", "o", "x">>, <<"B", "o", "x">>, <<"b", "o">>}

RegistryPrefixes ==
    { << <<"a/">> >>, << <<"a/", "v2/">> >>, << <<"b/">> >>,
      << <<"a/", "v2/">>, <<"b/">> >>, << >> }

RegistryServices == {Service(n, u) : n \in RegistryNames, u \in RegistryPrefixes}

\* Registry(services=...): the tuples of at most MaxServices services.
Registries == UNION {[1..n -> RegistryServices] : n \in 0..MaxServices}

\* The URLs looked up.
LookupUrls ==
    { <<"a/", "v2/", "x">>, <<"a/", "x">>, <<"a/">>, <<"b/", "x">>, <<"c/", "x">>, <<"a">> }

\* The names looked up.
LookupNames == RegistryNames \cup {<<"b", "o", "x", "y">>}

\* The inner loop of get_by_url that tries only the first prefix.
MatchesFirstPrefix(service, url) ==
    Len(service.base_api_urls) > 0 /\ StartsWith(url, service.base_api_urls[1])

\* The inner loop of get_by_url: some base_api_url of the service is a prefix
\* of the URL.
MatchesService(service, url) ==
    \E j \in 1..Len(service.base_api_urls) : StartsWith(url, service.base_api_urls[j])

\* The loop of get_by_url from service i on.
RECURSIVE GetByUrlFrom(_, _, _)
GetByUrlFrom(services, url, i) ==
    IF i > Len(services) THEN NoService
    ELSE IF MatchesService(services[i], url) THEN services[i]
    ELSE GetByUrlFrom(services, url, i + 1)

\* A get_by_url that returns the service of the longest matching prefix.
GetByUrlLongest(services, url) ==
    LET pairs == UNION {{<<i, j>> : j \in 1..Len(services[i].base_api_urls)} : i \in 1..Len(services)}
        matches == {m \in pairs : StartsWith(url, services[m[1]].base_api_urls[m[2]])}
    IN  IF matches = {} THEN NoService
        ELSE LET best == CHOOSE m \in matches :
                           \A o \in matches :
                              \/ Len(services[m[1]].base_api_urls[m[2]]) > Len(services[o[1]].base_api_urls[o[2]])
                              \/ /\ Len(services[m[1]].base_api_urls[m[2]]) = Len(services[o[1]].base_api_urls[o[2]])
                                 /\ m[1] <= o[1]
             IN  services[best[1]]

\* Registry.get_by_url
GetByUrl(services, url) == GetByUrlFrom(services, url, 1)

\* The loop of get_by_name from service i on.
RECURSIVE GetByNameFrom(_, _, _)
GetByNameFrom(services, name, i) ==
    IF i > Len(services) THEN NoService
    ELSE IF services[i].name = name THEN services[i]
    ELSE GetByNameFrom(services, name, i + 1)

\* A get_by_name that compares the names without their case.
GetByNameIgnoringCase(services, name) ==
    LET hits == {i \in 1..Len(services) : Lower(services[i].name) = Lower(name)}
    IN  IF hits = {} THEN NoService
        ELSE services[CHOOSE i \in hits : \A o \in hits : i <= o]

\* Registry.get_by_name
GetByName(services, name) == GetByNameFrom(services, name, 1)

\* No registry is looked up.
NoLookup == [on |-> FALSE]

\* A registry before its first lookup.
Lookup(services) ==
    [on |-> TRUE, services |-> services, op |-> "none", url |-> <<>>, name |-> <<>>,
     result |-> NoService]

LookupByUrl(url) ==
    /\ reg.on
    /\ reg' = [reg EXCEPT !.op = "get_by_url", !.url = url, !.name = <<>>,
                          !.result = GetByUrl(reg.services, url)]
    /\ UNCHANGED <<proc, sess, storeFile, stateFile, obs, call, ops>>

LookupByName(name) ==
    /\ reg.on
    /\ reg' = [reg EXCEPT !.op = "get_by_name", !.name = name, !.url = <<>>,
                          !.result = GetByName(reg.services, name)]
    /\ UNCHANGED <<proc, sess, storeFile, stateFile, obs, call, ops>>

(***************************************************************************)
(* The arguments of the curl command (cli.py).  An argument is a text, the *)
(* argument list a sequence of texts.                                      *)
(***************************************************************************)
CURL_PASSTHROUGH_FLAGS == {<<"-v">>, <<"--verbose">>}

\* _filter_passthrough_flags
FilterPassthroughFlags(args) == SelectSeq(args, LAMBDA a : a \notin CURL_PASSTHROUGH_FLAGS)

\* Options of the parser of uncurl that take a value, and those that take none.
UncurlValueOptions == {<<"-X">>, <<"-H">>, <<"-d">>}

UncurlFlags == {<<"-s">>, <<"-k">>, <<"-i">>, <<"--compressed">>}

\* The arguments of the model that start with "-".
Dashed == CURL_PASSTHROUGH_FLAGS \cup UncurlValueOptions \cup UncurlFlags \cup {<<"-o">>}

\* uncurl.parse_context: the positional arguments from argument i on; not ok
\* where the parser exits (an option it does not know, an option without its
\* value).
RECURSIVE UncurlPositionals(_, _)
UncurlPositionals(args, i) ==
    IF i > Len(args) THEN [ok |-> TRUE, pos |-> <<>>]
    ELSE IF args[i] \in UncurlValueOptions
         THEN IF i + 1 > Len(args) THEN [ok |-> FALSE, pos |-> <<>>]
              ELSE UncurlPositionals(args, i + 2)
    ELSE IF args[i] \in UncurlFlags THEN UncurlPositionals(args, i + 1)
    ELSE IF args[i] \in Dashed THEN [ok |-> FALSE, pos |-> <<>>]
    ELSE [ok |-> UncurlPositionals(args, i + 1).ok,
          pos |-> <<args[i]>> \o UncurlPositionals(args, i + 1).pos]

\* _extract_url_from_curl_arguments: the parser wants exactly one positional
\* argument after the command; SystemExit and an empty URL give None.
ExtractUrlFromCurlArguments(args) ==
    LET parsed == UncurlPositionals(FilterPassthroughFlags(args), 1)
    IN  IF parsed.ok /\ Len(parsed.pos) = 1 /\ parsed.pos[1] # <<>>
        THEN Str(parsed.pos[1]) ELSE NoStr

\* base_api_urls of the services.
ApiUrl(k) ==
    CASE k = "github"   -> <<"https://api.github.com/">>
      [] k = "linear"   -> <<"https://api.linear.app/">>
      [] k = "dropbox"  -> <<"https://api.dropboxapi.com/">>
      [] k = "simple"   -> <<"https://api.simple.example/">>
      [] k = "followup" -> <<"https://api.followup.example/">>

\* The registry the commands use.
REGISTRY ==
    << Service("simple", <<ApiUrl("simple")>>), Service("followup", <<ApiUrl("followup")>>),
       Service("dropbox", <<ApiUrl("dropbox")>>), Service("github", <<ApiUrl("github")>>),
       Service("linear", <<ApiUrl("linear")>>) >>

\* Arguments of the user that name a URL of service k.
UserArguments(k) ==
    << <<"-v">>, <<"-X">>, <<"POST">>, ApiUrl(k) \o <<"user">>, <<"-s">> >>

\* Arguments in which no URL is found, or a URL of no service.
OtherArguments(k) ==
    { << <<"--verbose">>, <<"https://example.com/", "user">> >>,
      << <<"-o">>, <<"out">>, ApiUrl(k) \o <<"user">> >>,
      << <<"-v">> >> }

\* if api_credentials is None, taken as true whatever the store gave.
NeedsLoginAlways(api) == TRUE

\* if api_credentials is None
NeedsLogin(api) == api = NoCred

\* The arguments for curl without the pass-through flags.
CurlArgumentsFiltered(c, args) == AsCurlArguments(c) \o FilterPassthroughFlags(args)

\* all_arguments = list(api_credentials.as_curl_arguments()) + all_arguments
CurlArguments(c, args) == AsCurlArguments(c) \o args

\* One message for every error of login.
ExitMessageSame(outcome) == "Login failed"

\* What the except clauses of the curl command print.
ExitMessage(outcome) ==
    CASE outcome = "LoginCancelledError" -> "Login cancelled."
      [] outcome = "LoginFailedError" -> "Login failed"
      [] OTHER -> "Traceback"

(***************************************************************************)
(* The status command (cli.py).                                            *)
(***************************************************************************)
\* The names the user may give.
StatusNames == {"github", "linear", "dropbox", "unknown-service", "Github"}

\* The HTTP codes the request of check_api_credentials may get.
HttpCodes == {"200", "401"}

\* The credential class check_api_credentials of the service accepts.
CheckedClass(k) == IF k = "linear" THEN "AuthorizationBare" ELSE "AuthorizationBearer"

\* A check that takes every credential as valid.
CheckApiCredentialsTrusting(k, c, http) == "valid"

\* check_api_credentials of the GitHub, Linear and Dropbox services.
CheckApiCredentials(k, c, http) ==
    IF c.cls # CheckedClass(k) THEN "invalid"
    ELSE IF http = "200" THEN "valid" ELSE "invalid"

\* status: LATCHKEY_STORE is set or not, and the request of
\* check_api_credentials, if it is made, gets the code http.
Status(name, storeOn, http) ==
    LET service == GetByName(REGISTRY, name)
        c == [call EXCEPT !.n = call.n + 1, !.op = "status", !.name = name, !.model = NoCred,
                          !.value = NoCred, !.raised = FALSE, !.found = FALSE,
                          !.before = storeFile, !.storeOn = storeOn, !.http = http,
                          !.checked = FALSE]
    IN  /\ call.on /\ call.n < MaxCalls
        /\ call' =
              IF service.none
              THEN [c EXCEPT !.out = "Error: Unknown service", !.exit = "1"]
              ELSE IF ~storeOn
              THEN [c EXCEPT !.out = "missing", !.exit = "0"]
              ELSE IF StoreGet(storeFile, name).raised
              THEN [c EXCEPT !.out = "Traceback", !.exit = "1", !.raised = TRUE]
              ELSE IF StoreGet(storeFile, name).value = NoCred
              THEN [c EXCEPT !.out = "missing", !.exit = "0"]
              ELSE [c EXCEPT !.value = StoreGet(storeFile, name).value,
                             !.out = CheckApiCredentials(name, StoreGet(storeFile, name).value, http),
                             !.exit = "0", !.checked = TRUE]
        /\ UNCHANGED <<proc, sess, storeFile, stateFile, obs, ops, reg>>

(***************************************************************************)
(* The clear command with a service name (cli.py).                         *)
(***************************************************************************)
\* A clear that empties the whole document.
ClearServiceWholeStore(name, storeOn, file) ==
    IF GetByName(REGISTRY, name).none THEN [exit |-> "1", out |-> "Error: Unknown service", found |-> FALSE, file |-> file]
    ELSE IF ~storeOn THEN [exit |-> "1", out |-> "Error: not set", found |-> FALSE, file |-> file]
    ELSE [exit |-> "0", out |-> "cleared", found |-> TRUE, file |-> SaveStoreData(EmptyDoc)]

\* _clear_service: the exit code, what it prints and the file it leaves.
ClearServiceResult(name, storeOn, file) ==
    IF GetByName(REGISTRY, name).none
    THEN [exit |-> "1", out |-> "Error: Unknown service", found |-> FALSE, file |-> file]
    ELSE IF ~storeOn
    THEN [exit |-> "1", out |-> "Error: not set", found |-> FALSE, file |-> file]
    ELSE IF StoreDelete(file, name).found
    THEN [exit |-> "0", out |-> "cleared", found |-> TRUE, file |-> StoreDelete(file, name).file]
    ELSE [exit |-> "0", out |-> "No API credentials found", found |-> FALSE,
          file |-> StoreDelete(file, name).file]

\* clear with a service name.
ClearService(name, storeOn) ==
    LET r == ClearServiceResult(name, storeOn, storeFile)
        c == [call EXCEPT !.n = call.n + 1, !.op = "clear", !.name = name, !.model = NoCred,
                          !.value = NoCred, !.raised = FALSE, !.found = r.found,
                          !.before = storeFile, !.storeOn = storeOn, !.http = "none",
                          !.checked = FALSE, !.out = r.out, !.exit = r.exit]
    IN  /\ call.on /\ call.n < MaxCalls
        /\ storeFile' = r.file
        /\ call' = IF name \in StoreKeys /\ r.exit = "0"
                   THEN [c EXCEPT !.last[name] = [op |-> "delete", model |-> NoCred]]
                   ELSE c
        /\ UNCHANGED <<proc, sess, stateFile, obs, ops, reg>>

(***************************************************************************)
(* Exceptions and exits of ServiceSession.login.                           *)
(***************************************************************************)
\* A handler that reports a closed browser as a failed login.
TryHeadfulAsFailed(e) == IF e = "TargetClosedError" THEN "LoginFailedError" ELSE e

\* The try statement around the headful phase: the exception that leaves it.
TryHeadful(e) == IF e = "TargetClosedError" THEN "LoginCancelledError" ELSE e

\* The try statement around _perform_browser_followup: the exception that leaves it.
FollowupExcept(e) == IF e = "LoginFailedError" THEN e ELSE "LoginFailedError"

\* A runtime whose exit leaves the browsers it launched running.
PlaywrightExitLeaks(b) == b

\* Leaving "with sync_playwright()": the driver stops and takes every browser
\* it launched with it.
PlaywrightExit(b) == IF b = "open" THEN "closed" ELSE b

\* A login that does not close the headful browser before finalization.
CloseHeadfulSkipped(b) == b

\* browser.close() of the headful browser, before finalization.
CloseHeadful(b) == "closed"

\* A login that returns whatever finalization gave, None included.
LoginReturnUnchecked(api) == "returned"

\* The end of login: the outcome for the api_credentials finalization gave.
LoginReturn(api) == IF api = NoCred THEN "LoginFailedError" ELSE "returned"

\* A wait that does not notice that the page is closed.
WaitForTimeoutNeverRaises(b) == FALSE

\* page.wait_for_timeout raises TargetClosedError when the page is closed.
WaitForTimeoutRaises(b) == b = "closed"

\* What _perform_browser_followup does: it returns ret, or raises.
FollowupResults(k) ==
    CASE k = "github" ->
            {[raises |-> "none", ret |-> AuthorizationBearer(t)] : t \in Tokens}
            \cup {[raises |-> e, ret |-> NoCred] : e \in {"LoginFailedError", "TimeoutError"}}
      [] k = "linear" ->
            {[raises |-> "none", ret |-> AuthorizationBare(t)] : t \in Tokens}
            \cup {[raises |-> e, ret |-> NoCred] : e \in {"LoginFailedError", "TimeoutError"}}
      [] OTHER ->
            {[raises |-> "none", ret |-> c] : c \in {NoCred, AuthorizationBearer(<<"t1">>)}}
            \cup {[raises |-> e, ret |-> NoCred] : e \in {"LoginFailedError", "TimeoutError"}}

\* A service that keeps one session object and hands it to every caller.
GetSessionSingleton(p, k) == k

\* service.get_session(): the identity of the session object the call returns,
\* a new object for every call.
GetSession(p, k) == p

\* A command that saves whenever a store is configured, whatever login did.
AfterLoginAlwaysSaves(outcome, storeOn) ==
    IF storeOn THEN "save_load"
    ELSE IF outcome = "returned" THEN "run_curl" ELSE "exited"

\* The curl command after login: where it goes with the outcome of login.
AfterLogin(outcome, storeOn) ==
    IF outcome = "returned"
    THEN IF storeOn THEN "save_load" ELSE "run_curl"
    ELSE "exited"

(***************************************************************************)
(* Attempts.                                                               *)
(***************************************************************************)
\* An attempt before it starts: the curl command for a URL of service k, with
\* LATCHKEY_BROWSER_STATE set (bsp) or not and LATCHKEY_STORE set (storeOn) or not.
Attempt(pc0, k, instr, bsp, storeOn) ==
    [pc |-> pc0, svc |-> k, instr |-> instr, bsp |-> bsp, storeOn |-> storeOn,
     sid |-> "none",
     headful |-> "none", headless |-> "none",
     loginContinue |-> FALSE, navigated |-> FALSE,
     polls |-> 0, nresp |-> 0,
     tempPath |-> FALSE, tempFile |-> NoSnap, headlessSeed |-> NoSnap,
     exc |-> "none", api |-> NoCred,
     outcome |-> "none", result |-> NoCred,
     data |-> EmptyDoc, injected |-> NoCred, ranCurl |-> FALSE,
     args |-> UserArguments(k), curlArgs |-> <<>>,
     exit |-> "none", msg |-> "",
     \* history, read by no action
     closedPhase |-> "none", closedComplete |-> FALSE, detected |-> FALSE,
     firstCaptured |-> NoCred, finalized |-> "unset", tempWrites |-> 0,
     storeAtStart |-> NoStoreFile, stateAtStart |-> NoSnap]

SessIds == Procs \cup Kinds

Set(p, r) == proc' = [proc EXCEPT ![p] = r]

MySession(p) == sess[proc[p].sid]

\* An exception raised inside the with block of login.
Raise(s, e) == [s EXCEPT !.exc = e, !.pc = "with_exit"]

\* The attempt is inside login.
LoginPcs ==
    {"launch", "instructions", "goto", "wait", "snapshot", "on_complete",
     "close_headful", "finalize", "new_context", "followup", "with_exit"}

InLogin(p) == proc[p].pc \in LoginPcs

\* An interstitial that does not wait for the user.
InstructionsNotAwaited(s) == TRUE

\* page.wait_for_function("window.loginContinue === true") has returned.
InstructionsAcknowledged(s) == s.loginContinue

\* The main flow is inside a Playwright call on the headful page or context, so
\* the runtime dispatches "response" callbacks.
InPlaywrightCall(s) ==
    \/ s.pc \in {"goto", "wait"}
    \/ s.pc = "snapshot" /\ s.bsp
    \/ s.pc = "on_complete" /\ s.svc \in FollowupKinds

Min(a, b) == IF a < b THEN a ELSE b

(***************************************************************************)
(* The curl command up to login (cli.py, curl).                            *)
(***************************************************************************)
CurlStart(p) ==
    LET s == proc[p]
        url == ExtractUrlFromCurlArguments(s.args)
        service == IF url.some THEN GetByUrl(REGISTRY, url.v) ELSE NoService
        got == IF s.storeOn /\ ~service.none THEN StoreGet(storeFile, service.name)
               ELSE [raised |-> FALSE, value |-> NoCred]
        t == [s EXCEPT !.storeAtStart = storeFile, !.stateAtStart = stateFile]
    IN  /\ s.pc = "idle"
        /\ IF service.none
           THEN /\ Set(p, [t EXCEPT !.pc = "run_curl"])
                /\ UNCHANGED sess
           ELSE IF got.raised
           THEN /\ Set(p, [t EXCEPT !.svc = service.name, !.pc = "exited", !.exit = "1", !.msg = "Traceback"])
                /\ UNCHANGED sess
           ELSE IF NeedsLogin(got.value)
           THEN /\ Set(p, [t EXCEPT !.svc = service.name, !.pc = "launch",
                                    !.sid = GetSession(p, service.name)])
                /\ sess' = [sess EXCEPT ![GetSession(p, service.name)] = NewSession]
           ELSE /\ Set(p, [t EXCEPT !.svc = service.name, !.pc = "run_curl", !.injected = got.value])
                /\ UNCHANGED sess
        /\ UNCHANGED <<storeFile, stateFile>>

(***************************************************************************)
(* ServiceSession.login: the headful phase.                                *)
(***************************************************************************)
Launch(p) ==
    LET s == proc[p]
    IN  /\ s.pc = "launch"
        /\ Set(p, [s EXCEPT !.headful = "open",
                            !.tempPath = (s.svc \in FollowupKinds),
                            !.pc = IF s.instr THEN "instructions" ELSE "goto"])
        /\ UNCHANGED <<sess, storeFile, stateFile>>

\* The user clicks "Continue to Login" on the interstitial page.
Acknowledge(p) ==
    LET s == proc[p]
    IN  /\ s.pc = "instructions" /\ s.headful = "open" /\ ~s.loginContinue
        /\ Set(p, [s EXCEPT !.loginContinue = TRUE])
        /\ UNCHANGED <<sess, storeFile, stateFile>>

ShowLoginInstructions(p) ==
    LET s == proc[p]
    IN  /\ s.pc = "instructions"
        /\ IF s.headful = "closed"
           THEN Set(p, Raise(s, TryHeadful("TargetClosedError")))
           ELSE /\ InstructionsAcknowledged(s)
                /\ Set(p, [s EXCEPT !.pc = "goto"])
        /\ UNCHANGED <<sess, storeFile, stateFile>>

\* wait_for_function gives up after Playwright's default timeout.
InstructionsTimeout(p) ==
    LET s == proc[p]
    IN  /\ s.pc = "instructions" /\ s.headful = "open" /\ ~s.loginContinue
        /\ Set(p, Raise(s, TryHeadful("TimeoutError")))
        /\ UNCHANGED <<sess, storeFile, stateFile>>

Goto(p) ==
    LET s == proc[p]
    IN  /\ s.pc = "goto"
        /\ IF s.headful = "closed"
           THEN Set(p, Raise(s, TryHeadful("TargetClosedError")))
           ELSE Set(p, [s EXCEPT !.navigated = TRUE, !.pc = "wait"])
        /\ UNCHANGED <<sess, storeFile, stateFile>>

\* page.goto fails for a reason other than a closed page (network, timeout).
GotoFail(p) ==
    LET s == proc[p]
    IN  /\ s.pc = "goto" /\ s.headful = "open"
        /\ Set(p, Raise(s, TryHeadful("PlaywrightError")))
        /\ UNCHANGED <<sess, storeFile, stateFile>>

\* One iteration of _wait_for_headful_login_complete.
WaitPoll(p) ==
    LET s == proc[p]
    IN  /\ s.pc = "wait"
        /\ IF IsHeadfulLoginComplete(s.svc, MySession(p))
           THEN Set(p, [s EXCEPT !.pc = "snapshot", !.detected = TRUE])
           ELSE IF WaitForTimeoutRaises(s.headful)
                THEN Set(p, Raise(s, TryHeadful("TargetClosedError")))
                ELSE Set(p, [s EXCEPT !.polls = Min(s.polls + 1, MaxPolls)])
        /\ UNCHANGED <<sess, storeFile, stateFile>>

\* The runtime calls the page's "response" callback.
OnResponse(p, ev) ==
    LET s == proc[p]
    IN  /\ s.headful = "open" /\ InPlaywrightCall(s)
        /\ s.nresp < MaxResponses
        /\ sess' = [sess EXCEPT ![s.sid] = OnResponseOf(s.svc, sess[s.sid], ev)]
        /\ Set(p, [s EXCEPT !.nresp = s.nresp + 1,
                            !.firstCaptured =
                                IF s.svc = "simple" /\ s.firstCaptured = NoCred
                                THEN ev.cred ELSE s.firstCaptured])
        /\ UNCHANGED <<storeFile, stateFile>>

\* The user closes the headful browser.
UserClose(p) ==
    LET s == proc[p]
    IN  /\ s.headful = "open"
        /\ s.pc \in {"instructions", "goto", "wait", "snapshot", "on_complete", "close_headful"}
        /\ Set(p, [s EXCEPT !.headful = "closed",
                            !.closedPhase = s.pc,
                            !.closedComplete = IsHeadfulLoginComplete(s.svc, MySession(p))])
        /\ UNCHANGED <<sess, storeFile, stateFile>>

(***************************************************************************)
(* ServiceSession.login: after login was detected.                         *)
(***************************************************************************)
\* A login that leaves the file at browser_state_path to the end of the attempt.
SnapshotDeferred(p) ==
    LET s == proc[p]
    IN  /\ s.pc = "snapshot"
        /\ Set(p, [s EXCEPT !.pc = "on_complete"])
        /\ UNCHANGED <<sess, storeFile, stateFile>>

\* context.storage_state(path=browser_state_path)
Snapshot(p) ==
    LET s == proc[p]
    IN  /\ s.pc = "snapshot"
        /\ IF ~s.bsp
           THEN Set(p, [s EXCEPT !.pc = "on_complete"]) /\ UNCHANGED stateFile
           ELSE IF s.headful = "closed"
                THEN Set(p, Raise(s, "TargetClosedError")) /\ UNCHANGED stateFile
                ELSE /\ Set(p, [s EXCEPT !.pc = "on_complete"])
                     /\ stateFile' = Snap(p, s.nresp)
        /\ UNCHANGED <<sess, storeFile>>

\* The file at browser_state_path cannot be written.
SnapshotFail(p) ==
    LET s == proc[p]
    IN  /\ s.pc = "snapshot" /\ s.bsp /\ s.headful = "open"
        /\ Set(p, Raise(s, "OSError"))
        /\ UNCHANGED <<sess, storeFile, stateFile>>

OnHeadfulLoginComplete(p) ==
    LET s == proc[p]
    IN  /\ s.pc = "on_complete"
        /\ IF s.svc \notin FollowupKinds \/ ~s.tempPath
           THEN Set(p, [s EXCEPT !.pc = "close_headful"])
           ELSE IF s.headful = "closed"
                THEN Set(p, Raise(s, "TargetClosedError"))
                ELSE Set(p, [s EXCEPT !.tempFile = Snap(p, s.nresp), !.pc = "close_headful",
                                      !.tempWrites = s.tempWrites + 1])
        /\ UNCHANGED <<sess, storeFile, stateFile>>

CloseHeadfulBrowser(p) ==
    LET s == proc[p]
    IN  /\ s.pc = "close_headful"
        /\ Set(p, [s EXCEPT !.headful = CloseHeadful(s.headful), !.pc = "finalize"])
        /\ UNCHANGED <<sess, storeFile, stateFile>>

\* Something outside the program removes the temporary snapshot file.
TempFileRemoved(p) ==
    LET s == proc[p]
    IN  /\ s.pc = "finalize" /\ s.tempFile # NoSnap
        /\ Set(p, [s EXCEPT !.tempFile = NoSnap])
        /\ UNCHANGED <<sess, storeFile, stateFile>>

\* self._finalize_credentials(playwright), up to the launch of the headless browser.
Finalize(p) ==
    LET s == proc[p]
    IN  /\ s.pc = "finalize"
        /\ CASE s.svc = "simple" ->
                  Set(p, [s EXCEPT !.api = MySession(p).api_credentials,
                                   !.finalized = "captured", !.pc = "with_exit"])
             [] s.svc = "dropbox" ->
                  \* DropboxServiceSession._finalize_credentials takes no playwright argument
                  Set(p, [Raise(s, "TypeError") EXCEPT !.finalized = "raised"])
             [] OTHER ->
                  IF ~s.tempPath \/ s.tempFile = NoSnap
                  THEN Set(p, [s EXCEPT !.api = NoCred, !.finalized = "no_snapshot",
                                        !.pc = "with_exit"])
                  ELSE Set(p, [s EXCEPT !.headless = "open", !.pc = "new_context"])
        /\ UNCHANGED <<sess, storeFile, stateFile>>

\* A headless context seeded from the file at browser_state_path.
NewContextFromStateFile(p) ==
    LET s == proc[p]
    IN  /\ s.pc = "new_context"
        /\ Set(p, [s EXCEPT !.headlessSeed = stateFile, !.pc = "followup"])
        /\ UNCHANGED <<sess, storeFile, stateFile>>

\* browser.new_context(storage_state=str(self._temporary_state_path))
NewContext(p) ==
    LET s == proc[p]
    IN  /\ s.pc = "new_context"
        /\ Set(p, [s EXCEPT !.headlessSeed = s.tempFile, !.pc = "followup"])
        /\ UNCHANGED <<sess, storeFile, stateFile>>

NewContextFail(p) ==
    LET s == proc[p]
    IN  /\ s.pc = "new_context"
        /\ Set(p, [Raise(s, "PlaywrightError") EXCEPT !.finalized = "context_failed"])
        /\ UNCHANGED <<sess, storeFile, stateFile>>

\* The try statement of BrowserFollowupServiceSession._finalize_credentials.
Followup(p, r) ==
    LET s == proc[p]
    IN  /\ s.pc = "followup"
        /\ IF r.raises = "none"
           THEN Set(p, [s EXCEPT !.headless = "closed", !.api = r.ret,
                                 !.finalized = IF r.ret = NoCred THEN "followup_none" ELSE "followup_cred",
                                 !.pc = "with_exit"])
           ELSE Set(p, [Raise(s, FollowupExcept(r.raises))
                            EXCEPT !.headless = "closed", !.finalized = "followup_raised"])
        /\ UNCHANGED <<sess, storeFile, stateFile>>

\* Control leaves the with blocks of login and returns to the caller.
LoginExit(p) ==
    LET s == proc[p]
        o == IF s.exc # "none" THEN s.exc ELSE LoginReturn(s.api)
    IN  /\ s.pc = "with_exit"
        /\ Set(p, [s EXCEPT !.headful = PlaywrightExit(s.headful),
                            !.headless = PlaywrightExit(s.headless),
                            !.tempFile = NoSnap,
                            !.outcome = o,
                            !.result = IF o = "returned" THEN s.api ELSE NoCred,
                            !.pc = "returned"])
        /\ UNCHANGED <<sess, storeFile, stateFile>>

(***************************************************************************)
(* The curl command after login.                                           *)
(***************************************************************************)
\* The count of loop iterations belongs to the login call and ends with it.
CurlAfterLogin(p) ==
    LET s == [proc[p] EXCEPT !.polls = 0]
        next == AfterLogin(s.outcome, s.storeOn)
    IN  /\ s.pc = "returned"
        /\ IF next = "exited"
           THEN Set(p, [s EXCEPT !.pc = "exited", !.exit = "1",
                                 !.msg = ExitMessage(s.outcome)])
           ELSE Set(p, [s EXCEPT !.pc = next, !.injected = s.result])
        /\ UNCHANGED <<sess, storeFile, stateFile>>

\* ApiCredentialStore.save: data = self._load_store_data()
SaveLoad(p) ==
    LET s == proc[p]
    IN  /\ s.pc = "save_load"
        /\ Set(p, [s EXCEPT !.data = LoadStoreData(storeFile), !.pc = "save_write"])
        /\ UNCHANGED <<sess, storeFile, stateFile>>

\* ApiCredentialStore.save: data[service_name] = ...; self._save_store_data(data)
SaveWrite(p) ==
    LET s == proc[p]
    IN  /\ s.pc = "save_write"
        /\ storeFile' = SaveStoreData(SaveEntry(s.data, s.svc, s.injected))
        /\ Set(p, [s EXCEPT !.pc = "run_curl"])
        /\ UNCHANGED <<sess, stateFile>>

\* run_curl(all_arguments); raise typer.Exit(code=result.returncode)
RunCurl(p, rc) ==
    LET s == proc[p]
    IN  /\ s.pc = "run_curl"
        /\ Set(p, [s EXCEPT !.ranCurl = TRUE, !.exit = rc, !.pc = "exited",
                            !.curlArgs = IF s.injected = NoCred THEN s.args
                                         ELSE CurlArguments(s.injected, s.args)])
        /\ UNCHANGED <<sess, storeFile, stateFile>>

(***************************************************************************)
(* Specifications.                                                         *)
(***************************************************************************)
\* Store documents an attempt for service k may find.
InitStores(k) ==
    { NoStoreFile,
      SaveStoreData(EmptyDoc),
      SaveStoreData([EmptyDoc EXCEPT ![k] = ModelDump(AuthorizationBearer(<<"t1">>))]),
      SaveStoreData([EmptyDoc EXCEPT !["linear"] = ModelDump(AuthorizationBare(<<"t2">>))]) }

InitFiles(k) ==
    /\ storeFile \in InitStores(k)
    /\ stateFile \in {NoSnap, Snap("earlier", 0)}
    /\ sess = [i \in SessIds |-> NewSession]
    /\ obs = NoObserver
    /\ call = NoClient
    /\ ops = NoOps
    /\ reg = NoLookup

\* One attempt: p1 runs the curl command, p2 is never started.
Init ==
    \E k \in Kinds : \E instr \in InstructionChoices(k) : \E bsp \in BOOLEAN : \E storeOn \in BOOLEAN :
      \E args \in {UserArguments(k)} \cup OtherArguments(k) :
        /\ proc = [p \in Procs |->
                      IF p = "p1" THEN [Attempt("idle", k, instr, bsp, storeOn) EXCEPT !.args = args]
                                  ELSE [Attempt("off", k, instr, bsp, storeOn) EXCEPT !.args = args]]
        /\ InitFiles(k)

Step(p) ==
    \/ CurlStart(p)
    \/ Launch(p)
    \/ Acknowledge(p)
    \/ ShowLoginInstructions(p)
    \/ InstructionsTimeout(p)
    \/ Goto(p)
    \/ GotoFail(p)
    \/ WaitPoll(p)
    \/ \E ev \in EventsOf(proc[p].svc) : OnResponse(p, ev)
    \/ UserClose(p)
    \/ Snapshot(p)
    \/ SnapshotFail(p)
    \/ OnHeadfulLoginComplete(p)
    \/ CloseHeadfulBrowser(p)
    \/ TempFileRemoved(p)
    \/ Finalize(p)
    \/ NewContext(p)
    \/ NewContextFail(p)
    \/ \E r \in FollowupResults(proc[p].svc) : Followup(p, r)
    \/ LoginExit(p)
    \/ CurlAfterLogin(p)
    \/ SaveLoad(p)
    \/ SaveWrite(p)
    \/ \E rc \in {"0", "22"} : RunCurl(p, rc)

Next == \E p \in Procs : Step(p) /\ UNCHANGED <<obs, call, ops, reg>>

Spec == Init /\ [][Next]_vars

\* The user runs the command again, with the same arguments and the same
\* environment, after an invocation with LATCHKEY_STORE set that ran curl.
NextInvocation ==
    /\ proc["p1"].pc = "exited" /\ proc["p1"].ranCurl /\ proc["p1"].storeOn
    /\ proc["p2"].pc = "off"
    /\ proc' = [proc EXCEPT !["p2"].pc = "idle"]
    /\ UNCHANGED <<sess, storeFile, stateFile>>

NextAgain ==
    \/ Next
    \/ NextInvocation /\ UNCHANGED <<obs, call, ops, reg>>

\* One invocation and the next one.
SpecAgain == Init /\ [][NextAgain]_vars

\* Two attempts for the same service at the same time.  The first has both
\* LATCHKEY_STORE and LATCHKEY_BROWSER_STATE set, the second neither.
InitConc ==
    /\ proc = [p \in Procs |-> IF p = "p1" THEN Attempt("idle", "followup", TRUE, TRUE, TRUE)
                                           ELSE Attempt("idle", "followup", TRUE, FALSE, FALSE)]
    /\ storeFile = NoStoreFile
    /\ stateFile = NoSnap
    /\ sess = [i \in SessIds |-> NewSession]
    /\ obs = NoObserver
    /\ call = NoClient
    /\ ops = NoOps
    /\ reg = NoLookup

SpecConc == InitConc /\ [][Next]_vars

\* The polling loop is scheduled: the main flow of an attempt keeps running.
LiveSpec ==
    Init /\ [][Next]_vars /\ \A p \in Procs : WF_vars(WaitPoll(p) /\ UNCHANGED <<obs, call, ops, reg>>)

\* One observer of any kind, fed any traffic.
InitObserver ==
    /\ obs \in {Observer(k) : k \in ObserverKinds}
    /\ call = NoClient
    /\ ops = NoOps
    /\ reg = NoLookup
    /\ proc = [p \in Procs |-> Attempt("off", "simple", FALSE, FALSE, FALSE)]
    /\ sess = [i \in SessIds |-> NewSession]
    /\ storeFile = NoStoreFile
    /\ stateFile = NoSnap

NextObserver ==
    \/ \E ev \in ObserverEvents(obs.kind) : OnTraffic(ev)
    \/ Extract

ObserverSpec == InitObserver /\ [][NextObserver]_vars

\* The observer of the next login in the same process.  get_session() of a
\* session service constructs a session; login(service) of login_flow is
\* handed the service object of the registry (SLACK, DISCORD), whose capture
\* attributes are those the last login left.
AttemptObserver(k, s) == IF k \in RequestKinds THEN s ELSE NewSession

\* A login is over and the next one for the same service starts.
NextAttempt ==
    /\ obs.kind \in ObserverKinds
    /\ obs.attempt = 1
    /\ ObserverComplete(obs.kind, obs.state)
    /\ obs.kind \in RequestKinds => obs.cred # NoCred
    /\ obs' = [obs EXCEPT !.state = AttemptObserver(obs.kind, obs.state),
                          !.events = <<>>, !.before = <<>>,
                          !.cred = NoCred, !.args = <<>>,
                          !.attempt = 2]
    /\ UNCHANGED <<proc, sess, storeFile, stateFile, call, ops, reg>>

NextObserverAgain ==
    \/ NextObserver
    \/ NextAttempt

\* One observer over two logins of one process.
ObserverAgainSpec == InitObserver /\ [][NextObserverAgain]_vars

\* Store files the client may find: none, an empty document, documents with
\* entries saved earlier and with entries of other origin.
StoreInitFiles ==
    { NoStoreFile, SaveStoreData(EmptyDoc),
      StoreSave(StoreSave(NoStoreFile, "github", AuthorizationBearer(<<"t1">>)),
                "dropbox", AuthorizationBearer(<<"t2">>)) }
    \cup { SaveStoreData([EmptyDoc EXCEPT !["linear"] = e, !["simple"] = ModelDump(NotionCredentials(<<"t1">>))]) :
               e \in ForeignEntries }

InitStore ==
    /\ storeFile \in StoreInitFiles
    /\ call = Client
    /\ ops = NoOps
    /\ reg = NoLookup
    /\ obs = NoObserver
    /\ proc = [p \in Procs |-> Attempt("off", "simple", FALSE, FALSE, FALSE)]
    /\ sess = [i \in SessIds |-> NewSession]
    /\ stateFile = NoSnap

NextStore ==
    \/ \E name \in StoreKeys :
          \/ Get(name)
          \/ \E c \in StoreModels : Save(name, c)
          \/ Delete(name)
    \/ \E name \in StatusNames : \E storeOn \in BOOLEAN : \E http \in HttpCodes :
          Status(name, storeOn, http)
    \/ \E name \in StatusNames : \E storeOn \in BOOLEAN : ClearService(name, storeOn)

StoreSpec == InitStore /\ [][NextStore]_vars

\* Two processes, each making one call on the same store file.
InitRace ==
    /\ storeFile \in {NoStoreFile, SaveStoreData(EmptyDoc),
                      StoreSave(NoStoreFile, "github", AuthorizationBearer(<<"t2">>))}
    /\ ops \in [StoreProcs -> {StoreOp(r) : r \in RaceCalls}]
    /\ call = NoClient
    /\ obs = NoObserver
    /\ reg = NoLookup
    /\ proc = [p \in Procs |-> Attempt("off", "simple", FALSE, FALSE, FALSE)]
    /\ sess = [i \in SessIds |-> NewSession]
    /\ stateFile = NoSnap

NextRace ==
    \E c \in StoreProcs :
        \/ RaceLoad(c)
        \/ RaceOpen(c)
        \/ RaceWrite(c)
        \/ RaceStop(c)

StoreRaceSpec == InitRace /\ [][NextRace]_vars

\* A registry of any services, looked up by any URL and any name.
InitRegistry ==
    /\ reg \in {Lookup(r) : r \in Registries}
    /\ ops = NoOps
    /\ call = NoClient
    /\ obs = NoObserver
    /\ proc = [p \in Procs |-> Attempt("off", "simple", FALSE, FALSE, FALSE)]
    /\ sess = [i \in SessIds |-> NewSession]
    /\ storeFile = NoStoreFile
    /\ stateFile = NoSnap

NextRegistry ==
    \/ \E url \in LookupUrls : LookupByUrl(url)
    \/ \E name \in LookupNames : LookupByName(name)

RegistrySpec == InitRegistry /\ [][NextRegistry]_vars

(***************************************************************************)
(* Properties.                                                             *)
(***************************************************************************)
\* login has handed control back to its caller.
LoginOver(p) == proc[p].outcome # "none"

Complete(p) == IsHeadfulLoginComplete(proc[p].svc, MySession(p))

C3_FollowupWithoutCredentialFails ==
    \A p \in Procs :
        /\ proc[p].svc \in FollowupKinds
        /\ LoginOver(p)
        /\ proc[p].finalized \in {"followup_none", "no_snapshot"}
        => proc[p].outcome = "LoginFailedError" /\ proc[p].result = NoCred

C3_Witness ==
    \E p \in Procs :
        /\ proc[p].detected
        /\ proc[p].finalized = "followup_none"
        /\ proc[p].outcome = "LoginFailedError"

\* C4: every error raised by a follow-up or token-generation step leaves login
\* as LoginFailedError, for every session type.
C4_FinalizeErrorIsLoginFailed ==
    \A p \in Procs :
        LoginOver(p) /\ proc[p].finalized \in {"raised", "followup_raised"}
            => proc[p].outcome = "LoginFailedError"

\* C5: when login hands control back to its caller, whatever the outcome, no
\* browser the attempt opened is still open.
C5_NoBrowserOpenAfterLogin ==
    \A p \in Procs :
        LoginOver(p) => proc[p].headful # "open" /\ proc[p].headless # "open"

C5_Witness ==
    \E p \in Procs :
        /\ proc[p].finalized = "context_failed"
        /\ proc[p].outcome = "PlaywrightError"
        /\ proc[p].headless = "closed"

\* C6: the headful and the headless browser of an attempt are never open
\* together, the headless browser exists only once the headful one is closed,
\* and its context is seeded from the snapshot this attempt wrote.
C6_BrowsersSequential ==
    \A p \in Procs :
        /\ ~(proc[p].headful = "open" /\ proc[p].headless = "open")
        /\ proc[p].headless # "none" => proc[p].headful = "closed"
        /\ proc[p].pc = "followup" => proc[p].headlessSeed = Snap(p, proc[p].nresp)
        /\ proc[p].headlessSeed # NoSnap => proc[p].headlessSeed.by = p

C6_Witness ==
    \E p \in Procs :
        /\ proc[p].pc = "followup"
        /\ proc[p].headless = "open" /\ proc[p].headful = "closed"
        /\ proc[p].closedPhase = "none"
        /\ stateFile # proc[p].headlessSeed

\* C7: the polling loop is left only when the observer is complete or the
\* browser is closed; once the observer is complete the wait returns; a close
\* while the observer is incomplete ends the wait with cancellation.
C7_WaitReturns ==
    /\ [][\A p \in Procs :
            proc[p].pc = "wait" /\ proc'[p].pc # "wait"
                => \/ Complete(p) /\ proc'[p].pc = "snapshot"
                   \/ /\ proc[p].headful = "closed"
                      /\ proc'[p].exc = "LoginCancelledError"]_vars
    /\ \A p \in Procs :
        /\ (proc[p].pc = "wait" /\ Complete(p)) ~> (proc[p].pc # "wait")
        /\ (proc[p].pc = "wait" /\ proc[p].headful = "closed" /\ ~Complete(p))
              ~> (proc[p].exc = "LoginCancelledError")

C7_Witness ==
    \E p \in Procs :
        /\ proc[p].polls = MaxPolls
        /\ proc[p].detected
        /\ proc[p].pc = "snapshot"

\* C8: save is reached only after login returned a credential, and a cancelled
\* or failed attempt leaves the store document as it was before the attempt.
C8_FailedAttemptLeavesStore ==
    \A p \in Procs :
        /\ proc[p].pc \in {"save_load", "save_write"} =>
              proc[p].outcome = "returned" /\ proc[p].injected # NoCred
        /\ proc[p].pc = "exited" /\ proc[p].outcome \in {"LoginCancelledError", "LoginFailedError"} =>
              storeFile = proc[p].storeAtStart

C8_Witness ==
    \E p \in Procs :
        /\ proc[p].pc = "exited" /\ proc[p].storeOn
        /\ proc[p].outcome = "LoginFailedError"
        /\ storeFile.exists

C10_AcknowledgeBeforeNavigation ==
    \A p \in Procs :
        /\ proc[p].instr /\ (proc[p].pc = "goto" \/ proc[p].navigated) => proc[p].loginContinue
        /\ ~proc[p].instr => ~proc[p].loginContinue /\ proc[p].pc # "instructions"

C10_Witness ==
    \E p \in Procs :
        proc[p].instr /\ proc[p].navigated /\ proc[p].loginContinue

(***************************************************************************)
(* Properties of the observers (ObserverSpec).                             *)
(***************************************************************************)
\* The observer's state after its i-th event.
StateAfter(i) == IF i = Len(obs.events) THEN obs.state ELSE obs.before[i + 1]

\* C11: a simple observer holds the credential of the first event that yielded
\* one, whatever events followed; so does the Discord observer with the first
\* non-blank authorization header of a request to its API.
C11_FirstWriterWins ==
    /\ obs.kind = "simple" =>
          LET yields == {i \in 1..Len(obs.events) : obs.events[i].cred # NoCred}
          IN  IF yields = {} THEN obs.state.api_credentials = NoCred
              ELSE \E i \in yields :
                      /\ \A j \in yields : i <= j
                      /\ obs.state.api_credentials = obs.events[i].cred
    /\ obs.kind = "discord" =>
          LET yields == {i \in 1..Len(obs.events) :
                            /\ StartsWith(obs.events[i].url, DISCORD_API)
                            /\ obs.events[i].hasAuth
                            /\ \E j \in 1..Len(obs.events[i].authorization) :
                                  obs.events[i].authorization[j] # " "}
          IN  IF yields = {} THEN obs.state.captured_token = NoStr
              ELSE \E i \in yields :
                      /\ \A j \in yields : i <= j
                      /\ obs.state.captured_token = Str(obs.events[i].authorization)

C11_Witness ==
    /\ obs.kind = "simple"
    /\ obs.events = << [cred |-> NoCred], [cred |-> AuthorizationBearer(<<"t1">>)],
                       [cred |-> AuthorizationBearer(<<"t2">>)] >>
    /\ obs.before[3].api_credentials = AuthorizationBearer(<<"t1">>)
    /\ obs.state.api_credentials = AuthorizationBearer(<<"t1">>)

\* C12: a simple observer is complete exactly when some event delivered to it
\* yielded a credential; the GitHub observer exactly when some response
\* delivered to it was for the new-token URL with status 200.
C12_CompleteIffObserved ==
    /\ obs.kind = "simple" =>
          (IsHeadfulLoginComplete("simple", obs.state)
              <=> \E i \in 1..Len(obs.events) : obs.events[i].cred # NoCred)
    /\ obs.kind = "github" =>
          (IsHeadfulLoginComplete("github", obs.state)
              <=> \E i \in 1..Len(obs.events) :
                      obs.events[i].url = GITHUB_NEW_TOKEN_URL /\ obs.events[i].status = 200)

C12_Witness ==
    /\ obs.kind = "github"
    /\ Len(obs.events) = 3
    /\ obs.events[1] = [url |-> "https://github.com/login", status |-> 200]
    /\ obs.events[2] = [url |-> GITHUB_NEW_TOKEN_URL, status |-> 302]
    /\ ~IsHeadfulLoginComplete("github", obs.before[3])
    /\ IsHeadfulLoginComplete("github", obs.state)

\* C13: an event delivered to a complete observer, of any kind, leaves the
\* whole state of the observer as it was.
C13_IdempotentAfterCompletion ==
    \A i \in 1..Len(obs.events) :
        ObserverComplete(obs.kind, obs.before[i]) => StateAfter(i) = obs.before[i]

C13_Witness ==
    /\ obs.kind = "dropbox"
    /\ Len(obs.events) = 3
    /\ ObserverComplete("dropbox", obs.before[2])
    /\ obs.before[2].csrf_token = <<"k1">>
    /\ obs.events[3].inDomain /\ obs.events[3].hasCookie
    /\ CsrfMatch(obs.events[3].cookie, 1) # 0 /\ CsrfGroup(obs.events[3].cookie) = <<"k2">>
    /\ HasJar(obs.events[3].cookie)
    /\ obs.state.csrf_token = <<"k1">>

\* C14: the Dropbox observer, incomplete so far, is complete after an event
\* exactly when the event's Cookie header has a cookie named jar.
C14_DropboxJarIndicator ==
    obs.kind = "dropbox" =>
        \A i \in 1..Len(obs.events) :
            LET ev == obs.events[i]
                h == ev.cookie
                jarCookie ==
                    /\ ev.hasCookie
                    /\ \E j \in 1..Len(h) :
                          /\ h[j] = "jar"
                          /\ j + 1 <= Len(h) /\ h[j + 1] = "="
                          /\ (j = 1 \/ h[j - 1] \in {";", " "})
            IN  ~ObserverComplete("dropbox", obs.before[i])
                    => (ObserverComplete("dropbox", StateAfter(i)) <=> jarCookie)

\* C15: when the first request to the service's API carries the authorization
\* header "Bearer t", the credentials extracted render an Authorization
\* header whose value is that header value.
C15_AuthorizationRoundTrip ==
    (obs.kind \in RequestKinds /\ obs.cred # NoCred) =>
        LET inDomain(u) ==
                CASE obs.kind = "discord" -> StartsWith(u, DISCORD_API)
                  [] obs.kind = "slack"   -> StartsWith(u, SLACK_API) \/ StartsWith(u, SLACK_EDGE_API)
                  [] obs.kind = "notion"  -> StartsWith(u, NOTION_SO_API) \/ StartsWith(u, NOTION_API)
            domain == {i \in 1..Len(obs.events) : inDomain(obs.events[i].url)}
        IN  \A i \in domain :
                ( /\ \A j \in domain : i <= j
                  /\ obs.events[i].hasAuth
                  /\ StartsWith(obs.events[i].authorization, BearerPrefix) )
                => /\ obs.args[1] = <<"-H">>
                   /\ obs.args[2] = <<"Authorization: ">> \o obs.events[i].authorization

C15_Witness ==
    /\ obs.kind = "slack"
    /\ obs.cred = SlackCredentials(<<"x", "y">>, <<"c1">>)
    /\ obs.events[1].hasAuth /\ obs.events[1].authorization = BearerPrefix \o <<"x", "y">>
    /\ StartsWith(obs.events[1].url, SLACK_EDGE_API)
    /\ obs.args[2] = <<"Authorization: ">> \o BearerPrefix \o <<"x", "y">>

(***************************************************************************)
(* Properties of the store (StoreSpec).                                    *)
(***************************************************************************)
\* C16: a get of a key whose last save or delete was a save returns a model
\* equal to the model saved, of the same class.
C16_StoreRoundTrip ==
    (call.op = "get" /\ call.last[call.name].op = "save")
        => ~call.raised /\ call.value = call.last[call.name].model

\* C17: a save leaves every entry but its own as it was, and so what get
\* gives for every other key.
C17_SaveChangesOnlyItsEntry ==
    call.op = "save" =>
        \A b \in ServiceNames \ {call.name} :
            /\ LoadStoreData(storeFile)[b] = LoadStoreData(call.before)[b]
            /\ StoreGet(storeFile, b) = StoreGet(call.before, b)

C17_Witness ==
    /\ call.op = "save" /\ call.name = "github"
    /\ call.before.exists
    /\ LoadStoreData(call.before)["github"] # Absent
    /\ LoadStoreData(call.before)["dropbox"] # Absent
    /\ LoadStoreData(storeFile)["github"] # LoadStoreData(call.before)["github"]
    /\ LoadStoreData(storeFile)["dropbox"] = ModelDump(AuthorizationBearer(<<"t2">>))

\* C18: a delete of a key the document does not have returns False and leaves
\* the file as it was, a file that does not exist included.
C18_DeleteAbsent ==
    (call.op = "delete" /\ LoadStoreData(call.before)[call.name] = Absent)
        => ~call.found /\ storeFile = call.before

C18_Witness ==
    /\ call.op = "delete" /\ call.n = 1
    /\ ~call.before.exists
    /\ ~call.found /\ ~storeFile.exists

\* C19: a delete of a key the document has returns True; afterwards get gives
\* None for the key and every other entry is as it was.
C19_DeletePresent ==
    (call.op = "delete" /\ LoadStoreData(call.before)[call.name] # Absent)
        => /\ call.found
           /\ StoreGet(storeFile, call.name) = [raised |-> FALSE, value |-> NoCred]
           /\ \A b \in ServiceNames \ {call.name} :
                 LoadStoreData(storeFile)[b] = LoadStoreData(call.before)[b]

C19_Witness ==
    /\ call.op = "delete" /\ call.name = "github" /\ call.found
    /\ LoadStoreData(call.before)["github"] = ModelDump(AuthorizationBearer(<<"t1">>))
    /\ LoadStoreData(storeFile)["dropbox"] = ModelDump(AuthorizationBearer(<<"t2">>))
    /\ LoadStoreData(storeFile)["github"] = Absent

\* C20: a get of an entry whose object_type is missing or is none of the four
\* tags raises; a get that returns a model returns the one class of the
\* entry's tag.
C20_GetFailsClosed ==
    (call.op = "get" /\ LoadStoreData(call.before)[call.name] # Absent) =>
        LET entry == LoadStoreData(call.before)[call.name]
            known == "object_type" \in DOMAIN entry
                         /\ entry.object_type \in {"authorization_bearer", "authorization_bare", "notion", "slack"}
        IN  /\ ~known => call.raised
            /\ call.raised => call.value = NoCred
            /\ ~call.raised =>
                  /\ call.value # NoCred
                  /\ call.value.object_type = entry.object_type
                  /\ call.value.cls =
                        CASE entry.object_type = "authorization_bearer" -> "AuthorizationBearer"
                          [] entry.object_type = "authorization_bare"   -> "AuthorizationBare"
                          [] entry.object_type = "notion"               -> "NotionApiCredentials"
                          [] entry.object_type = "slack"                -> "SlackApiCredentials"

C20_Witness ==
    /\ call.op = "get" /\ call.name = "linear" /\ call.n = 1
    /\ LoadStoreData(call.before)["linear"] = [token |-> <<"t1">>]
    /\ call.raised

\* C21: a get returns None exactly when the document, empty when the file does
\* not exist, has no entry for the key; a get leaves the file as it was and
\* creates none.
C21_GetNoneIffNoEntry ==
    call.op = "get" =>
        /\ (~call.raised /\ call.value = NoCred)
               <=> (~call.before.exists \/ call.before.doc[call.name] = Absent)
        /\ storeFile = call.before

C21_Witness ==
    /\ call.op = "get" /\ call.n = 1
    /\ ~call.before.exists /\ ~storeFile.exists
    /\ ~call.raised /\ call.value = NoCred

\* C23: a save or a delete of one key leaves the entry of every other key of
\* the document exactly as it was, entries that cannot be decoded as a
\* credential included, and takes effect on its own key whatever the other
\* entries are.
C23_OtherEntriesVerbatim ==
    call.op \in {"save", "delete"} =>
        LET old == LoadStoreData(call.before)
            new == LoadStoreData(storeFile)
        IN  /\ \A b \in ServiceNames \ {call.name} :
                  (old[b] # Absent /\ ~ValidatePython(old[b]).ok) => new[b] = old[b]
            /\ \A b \in ServiceNames \ {call.name} : (old[b] = Absent) <=> (new[b] = Absent)
            /\ call.op = "save" => new[call.name] = ModelDump(call.model)
            /\ call.op = "delete" =>
                  /\ call.found <=> old[call.name] # Absent
                  /\ new[call.name] = Absent

C23_Witness ==
    /\ call.op = "delete" /\ call.name = "github" /\ call.found /\ call.n = 2
    /\ LoadStoreData(call.before)["github"] = ModelDump(SlackCredentials(<<"t1">>, <<"c1">>))
    /\ LoadStoreData(storeFile)["linear"] = [object_type |-> "oauth2", token |-> <<"t1">>]
    /\ ~ValidatePython(LoadStoreData(storeFile)["linear"]).ok
    /\ LoadStoreData(storeFile)["simple"] = ModelDump(NotionCredentials(<<"t1">>))

(***************************************************************************)
(* Properties of store operations that overlap (StoreRaceSpec).            *)
(***************************************************************************)
\* C22: whatever a process reads from the store file while another process
\* saves, or after another process was stopped in the middle of a save, is
\* one whole document, the one before the save or the one after it: no load
\* finds an empty or partial text.
C22_SaveIsAtomic ==
    \A c \in StoreProcs : ops[c].pc # "start" => ~LoadRaises(ops[c].seen)

(***************************************************************************)
(* Properties of the registry (RegistrySpec).                              *)
(***************************************************************************)
\* C24: get_by_url returns the first service, in the order of registration,
\* one of whose prefixes the URL starts with, also when a service registered
\* later has a longer prefix that matches.
C24_FirstRegisteredWins ==
    reg.op = "get_by_url" =>
        \A i \in 1..Len(reg.services) :
            ( /\ \E j \in 1..Len(reg.services[i].base_api_urls) :
                    StartsWith(reg.url, reg.services[i].base_api_urls[j])
              /\ \A h \in 1..Len(reg.services) :
                    h < i => \A j \in 1..Len(reg.services[h].base_api_urls) :
                                ~StartsWith(reg.url, reg.services[h].base_api_urls[j]) )
                => reg.result = reg.services[i]

C24_Witness ==
    /\ reg.op = "get_by_url" /\ reg.url = <<"a/", "v2/", "x">>
    /\ reg.services = << Service(<<"b", "o", "x">>, << <<"a/">> >>),
                         Service(<<"b", "o">>, << <<"a/", "v2/">> >>) >>
    /\ reg.result = Service(<<"b", "o", "x">>, << <<"a/">> >>)

\* C25: get_by_url returns None exactly when the URL starts with no prefix of
\* any service of the registry, the registry without services included; a
\* prefix of a service that is not its first one matches as well.
C25_NoneIffNoPrefix ==
    reg.op = "get_by_url" =>
        ( reg.result = NoService
            <=> \A i \in 1..Len(reg.services) :
                   \A j \in 1..Len(reg.services[i].base_api_urls) :
                      ~StartsWith(reg.url, reg.services[i].base_api_urls[j]) )

C25_Witness ==
    /\ reg.op = "get_by_url" /\ reg.url = <<"b/", "x">>
    /\ reg.services = << Service(<<"b", "o">>, << <<"a/", "v2/">>, <<"b/">> >>) >>
    /\ reg.result = reg.services[1]

\* C26: get_by_name returns the first service whose name is the string asked
\* for, and None when there is none: a name that differs in case, or that
\* only starts with or extends the string, does not match.
C26_ExactName ==
    reg.op = "get_by_name" =>
        /\ reg.result = NoService <=> \A i \in 1..Len(reg.services) : reg.services[i].name # reg.name
        /\ \A i \in 1..Len(reg.services) :
              ( reg.services[i].name = reg.name
                  /\ \A h \in 1..Len(reg.services) : h < i => reg.services[h].name # reg.name )
                => reg.result = reg.services[i]

C26_Witness ==
    /\ reg.op = "get_by_name" /\ reg.name = <<"b", "o", "x">>
    /\ reg.services = << Service(<<"B", "o", "x">>, << <<"a/">> >>),
                         Service(<<"b", "o">>, << <<"b/">> >>) >>
    /\ reg.result = NoService

(***************************************************************************)
(* Properties of the curl command (Spec, SpecAgain).                       *)
(***************************************************************************)
\* The invocation looked for its service and found one.
Matched(p) == proc[p].pc \notin {"off", "idle"} /\ proc[p].args = UserArguments(proc[p].svc)

\* The invocation read an entry for its service from the store.
Stored(p) ==
    proc[p].storeOn /\ LoadStoreData(proc[p].storeAtStart)[proc[p].svc] # Absent

C28_CurlArguments ==
    \A p \in Procs :
        LET s == proc[p]
        IN  /\ (s.ranCurl /\ Matched(p)) =>
                  /\ s.injected # NoCred
                  /\ s.injected = IF Stored(p)
                                  THEN ValidatePython(LoadStoreData(s.storeAtStart)[s.svc]).value
                                  ELSE s.result
                  /\ s.curlArgs = AsCurlArguments(s.injected) \o s.args
            /\ (s.pc \notin {"off", "idle"} /\ ~Matched(p)) =>
                  /\ s.sid = "none" /\ s.injected = NoCred /\ s.outcome = "none"
                  /\ s.ranCurl => s.curlArgs = s.args

C28_Witness ==
    LET s == proc["p1"]
    IN  /\ s.ranCurl /\ s.svc = "github" /\ s.outcome = "returned"
        /\ s.args = << <<"-v">>, <<"-X">>, <<"POST">>, <<"https://api.github.com/", "user">>, <<"-s">> >>
        /\ s.curlArgs = << <<"-H">>, <<"Authorization: ", "B", "e", "a", "r", "e", "r", " ", "t1">> >> \o s.args

\* C29: a login that ends with LoginCancelledError or with LoginFailedError
\* ends the command with exit code 1 and the message of that error, a
\* different one for each, and curl is never run.
C29_LoginErrorsExit ==
    \A p \in Procs :
        LET s == proc[p]
        IN  s.outcome \in {"LoginCancelledError", "LoginFailedError"} =>
              /\ ~s.ranCurl /\ s.curlArgs = <<>>
              /\ s.pc \in {"returned", "exited"}
              /\ s.pc = "exited" =>
                    /\ s.exit = "1"
                    /\ s.outcome = "LoginCancelledError" <=> s.msg = "Login cancelled."
                    /\ s.outcome = "LoginFailedError" <=> s.msg = "Login failed"

C29_Witness ==
    /\ proc["p1"].outcome = "LoginFailedError" /\ proc["p1"].pc = "exited"
    /\ proc["p1"].exit = "1" /\ proc["p1"].msg = "Login failed"
    /\ ~proc["p1"].ranCurl /\ proc["p1"].storeOn

C31_ClearService ==
    call.op = "clear" =>
        LET known == call.name \in {"github", "linear", "dropbox"}
            old == LoadStoreData(call.before)
            new == LoadStoreData(storeFile)
        IN  /\ (~known \/ ~call.storeOn) => call.exit = "1" /\ storeFile = call.before
            /\ (known /\ call.storeOn) =>
                  /\ call.exit = "0"
                  /\ new[call.name] = Absent
                  /\ \A b \in ServiceNames \ {call.name} : new[b] = old[b]
                  /\ call.found <=> old[call.name] # Absent
                  /\ call.out = IF old[call.name] # Absent THEN "cleared"
                                ELSE "No API credentials found"
                  /\ old[call.name] = Absent => storeFile = call.before

C31_Witness ==
    /\ call.op = "clear" /\ call.name = "github" /\ call.storeOn /\ call.n = 1
    /\ call.found /\ call.out = "cleared" /\ call.exit = "0"
    /\ LoadStoreData(call.before)["github"] = ModelDump(AuthorizationBearer(<<"t1">>))
    /\ LoadStoreData(storeFile)["github"] = Absent
    /\ LoadStoreData(storeFile)["dropbox"] = ModelDump(AuthorizationBearer(<<"t2">>))

\* C32: of two processes that each save under another name, when one loads
\* the document the other wrote, both entries are in the document at the
\* end; when both load before either writes, the document at the end has the
\* entry of one of them only.
C32_LostUpdate ==
    LET a == ops["a"]
        b == ops["b"]
    IN  ( /\ a.op = "save" /\ b.op = "save" /\ a.name # b.name
          /\ a.pc = "done" /\ b.pc = "done" /\ storeFile.whole ) =>
            LET doc == LoadStoreData(storeFile)
                hasA == doc[a.name] = ModelDump(a.model)
                hasB == doc[b.name] = ModelDump(b.model)
            IN  /\ ( \/ LoadStoreData(b.seen)[a.name] = ModelDump(a.model)
                     \/ LoadStoreData(a.seen)[b.name] = ModelDump(b.model) ) => hasA /\ hasB
                /\ a.seen = b.seen => (hasA \/ hasB) /\ ~(hasA /\ hasB)

C32_Witness ==
    /\ ops["a"].op = "save" /\ ops["a"].name = "github" /\ ops["a"].pc = "done"
    /\ ops["b"].op = "save" /\ ops["b"].name = "linear" /\ ops["b"].pc = "done"
    /\ ops["a"].seen = ops["b"].seen
    /\ storeFile.whole
    /\ LoadStoreData(storeFile)["linear"] = ModelDump(ops["b"].model)
    /\ LoadStoreData(storeFile)["github"] # ModelDump(ops["a"].model)

(***************************************************************************)
(* Properties of login attempts (Spec).                                    *)
(***************************************************************************)
\* C33: an attempt of a follow-up session writes its state snapshot at most
\* once, with login detected and the headful browser open, and has written
\* it once when the headful browser is closed by login; the snapshot is read
\* only after that, by the creation of the headless context, and the
\* follow-up runs only on a snapshot the same attempt wrote.
C33_SnapshotOnceThenRead ==
    /\ [](\A p \in Procs : proc[p].svc \in FollowupKinds =>
            LET s == proc[p]
            IN  /\ s.tempWrites <= 1
                /\ s.tempWrites = 1 => s.detected
                /\ s.pc \in {"finalize", "new_context", "followup"} => s.tempWrites = 1
                /\ s.headlessSeed # NoSnap =>
                      /\ s.tempWrites = 1 /\ s.headlessSeed.by = p
                      /\ s.headful = "closed" /\ s.headless # "none"
                /\ (s.pc = "followup" \/ s.finalized \in {"followup_none", "followup_cred", "followup_raised"})
                      => s.headlessSeed # NoSnap /\ s.headlessSeed.by = p)
    /\ [][\A p \in Procs :
            proc'[p].tempWrites # proc[p].tempWrites =>
                /\ proc[p].pc = "on_complete" /\ proc[p].detected
                /\ proc[p].headful = "open" /\ proc'[p].headful = "open"
                /\ proc[p].headlessSeed = NoSnap
                /\ proc'[p].tempFile.by = p]_vars

C33_Witness ==
    /\ proc["p1"].svc = "github" /\ proc["p1"].finalized = "followup_cred"
    /\ proc["p1"].tempWrites = 1
    /\ proc["p1"].headlessSeed.by = "p1"
    /\ stateFile = Snap("earlier", 0)

(***************************************************************************)
(* More properties of the observers (ObserverSpec).                        *)
(***************************************************************************)
\* C34: the Slack observer holds, for the token and for the d cookie each on
\* its own, the value of the first request of its domain that carried one,
\* whichever requests carried the other; it is complete exactly when some
\* request carried a token and some request carried a d cookie.
C34_SlackFragments ==
    obs.kind = "slack" =>
        LET E == obs.events
            InDomain(e) == StartsWith(e.url, SLACK_API) \/ StartsWith(e.url, SLACK_EDGE_API)
            Tok == {i \in 1..Len(E) : InDomain(E[i]) /\ E[i].hasAuth /\ Strip(E[i].authorization) # <<>>}
            Coo == {i \in 1..Len(E) : InDomain(E[i]) /\ E[i].hasCookie /\ DCookieMatch(E[i].cookie, 1) # 0}
            First(S) == CHOOSE i \in S : \A j \in S : i <= j
        IN  /\ obs.state.captured_token =
                  IF Tok = {} THEN NoStr ELSE Str(DropBearer(E[First(Tok)].authorization))
            /\ obs.state.captured_d_cookie =
                  IF Coo = {} THEN NoStr ELSE Str(DCookieGroup(E[First(Coo)].cookie))
            /\ ObserverComplete("slack", obs.state) <=> (Tok # {} /\ Coo # {})

C34_Witness ==
    /\ obs.kind = "slack" /\ Len(obs.events) = 3
    /\ obs.events[1].hasAuth /\ ~obs.events[1].hasCookie
    /\ obs.events[1].url = SLACK_EDGE_API \o <<"cache">>
    /\ ~ObserverComplete("slack", obs.before[2])
    /\ ~ObserverComplete("slack", obs.before[3])
    /\ obs.events[3].hasAuth /\ obs.events[3].authorization # obs.events[1].authorization
    /\ obs.events[3].hasCookie
    /\ obs.state.captured_token = Str(DropBearer(obs.events[1].authorization))
    /\ obs.state.captured_d_cookie = Str(<<"c1">>)
    /\ ObserverComplete("slack", obs.state)

\* C35 as stated: for the Discord, Slack and Notion observers, a request to
\* a URL outside the observed prefixes, or without an authorization header
\* or with a blank one, captures no token and does not complete an observer
\* that was incomplete.
C35_OutsideTrafficLeavesIncomplete ==
    obs.kind \in RequestKinds =>
        \A i \in 1..Len(obs.events) :
            LET e == obs.events[i]
                inside == CASE obs.kind = "discord" -> StartsWith(e.url, DISCORD_API)
                            [] obs.kind = "slack" -> StartsWith(e.url, SLACK_API) \/ StartsWith(e.url, SLACK_EDGE_API)
                            [] obs.kind = "notion" -> StartsWith(e.url, NOTION_SO_API) \/ StartsWith(e.url, NOTION_API)
            IN  (~inside \/ ~e.hasAuth \/ Strip(e.authorization) = <<>>) =>
                    /\ StateAfter(i).captured_token = obs.before[i].captured_token
                    /\ ~ObserverComplete(obs.kind, obs.before[i])
                          => ~ObserverComplete(obs.kind, StateAfter(i))

\* C35, amended: a request to a URL outside the observed prefixes changes
\* nothing of the observer; a request without an authorization header or
\* with a blank one captures no token, and changes nothing of the Discord
\* and Notion observers; the Slack observer still takes the d cookie of such
\* a request to an observed URL, and is complete with it when it had the
\* token already.
C35_OutsideTrafficCapturesNoToken ==
    obs.kind \in RequestKinds =>
        \A i \in 1..Len(obs.events) :
            LET e == obs.events[i]
                pre == obs.before[i]
                post == StateAfter(i)
                inside == CASE obs.kind = "discord" -> StartsWith(e.url, DISCORD_API)
                            [] obs.kind = "slack" -> StartsWith(e.url, SLACK_API) \/ StartsWith(e.url, SLACK_EDGE_API)
                            [] obs.kind = "notion" -> StartsWith(e.url, NOTION_SO_API) \/ StartsWith(e.url, NOTION_API)
            IN  /\ ~inside => post = pre
                /\ (~e.hasAuth \/ Strip(e.authorization) = <<>>) =>
                      /\ post.captured_token = pre.captured_token
                      /\ obs.kind # "slack" => post = pre
                      /\ (ObserverComplete(obs.kind, post) /\ ~ObserverComplete(obs.kind, pre)) =>
                            /\ obs.kind = "slack" /\ inside /\ e.hasCookie
                            /\ pre.captured_token # NoStr /\ pre.captured_d_cookie = NoStr

C35_Witness ==
    /\ obs.kind = "slack" /\ Len(obs.events) = 2
    /\ obs.events[1].hasAuth /\ ~obs.events[1].hasCookie
    /\ obs.before[2].captured_token = Str(<<"a">>) /\ obs.before[2].captured_d_cookie = NoStr
    /\ obs.events[2].authorization = <<" ">> /\ obs.events[2].hasCookie
    /\ obs.state.captured_token = Str(<<"a">>)
    /\ obs.state.captured_d_cookie = Str(<<"c1">>)
    /\ ObserverComplete("slack", obs.state)

\* C36: an observer that is complete after some traffic event is complete
\* after every later one.
C36_CompletionMonotonic ==
    obs.kind \in ObserverKinds =>
        \A i \in 1..Len(obs.events) : \A j \in 1..Len(obs.events) :
            (i < j /\ ObserverComplete(obs.kind, StateAfter(i)))
                => ObserverComplete(obs.kind, StateAfter(j))

C36_Witness ==
    /\ obs.kind = "linear" /\ Len(obs.events) = 3
    /\ ~ObserverComplete("linear", obs.before[1])
    /\ ObserverComplete("linear", StateAfter(1))
    /\ obs.events[2].json.data = {"organizationMeta"} /\ obs.events[2].status = 200
    /\ obs.events[2].method = "POST" /\ obs.events[2].url = LINEAR_GRAPHQL_URL
    /\ obs.events[3].json.ok = FALSE
    /\ ObserverComplete("linear", obs.state)

\* C37: every login attempt that is over has returned a credential, raised
\* LoginCancelledError or raised LoginFailedError; no other exception leaves
\* login.
C37_ThreeOutcomes ==
    \A p \in Procs :
        LoginOver(p) =>
            proc[p].outcome \in {"returned", "LoginCancelledError", "LoginFailedError"}

\* C38: the observer of a login that has seen no traffic yet is incomplete and
\* holds nothing captured, so the login returns no credential, whatever an
\* earlier login for the service captured.
C38_AttemptStartsEmpty ==
    (obs.kind \in ObserverKinds /\ obs.events = <<>>) =>
        /\ obs.state = Observer(obs.kind).state
        /\ ~ObserverComplete(obs.kind, obs.state)
        /\ obs.cred = NoCred

\* C39: the object_type a save writes for a model is the tag of the model's
\* own class, so it decodes, and to that class.
C39_DiscriminatorConsistent ==
    (call.op = "save" /\ ~LoadRaises(storeFile)) =>
        LET entry == LoadStoreData(storeFile)[call.name]
            saved == call.last[call.name].model
        IN  /\ entry.object_type \in CredentialTags
            /\ TaggedClass(entry.object_type) = saved.cls
            /\ ValidatePython(entry).ok
            /\ ValidatePython(entry).value.cls = saved.cls

\* C40: the file at browser_state_path changes only in the snapshot step of an
\* attempt whose login was detected; an attempt that ended cancelled leaves
\* it as it was at its start; an attempt with a browser_state_path that has
\* reached finalization has written it, one that ended in LoginFailedError
\* included.
C40_StateFileAfterDetection ==
    /\ [](\A p \in Procs :
            LET s == proc[p]
            IN  /\ s.outcome = "LoginCancelledError" => stateFile = s.stateAtStart
                /\ (s.bsp /\ (s.pc \in {"finalize", "new_context", "followup"}
                                 \/ s.finalized # "unset"))
                        => (stateFile.by = p /\ stateFile.n <= s.nresp)
                /\ (s.bsp /\ s.outcome = "LoginFailedError") => stateFile.by = p)
    /\ [][stateFile' # stateFile =>
              \E p \in Procs : /\ proc[p].detected /\ proc[p].pc = "snapshot"
                                /\ proc[p].finalized = "unset"
                                /\ stateFile' = Snap(p, proc[p].nresp)]_vars

C40_Witness ==
    /\ proc["p1"].bsp /\ proc["p1"].detected
    /\ proc["p1"].outcome = "LoginFailedError"
    /\ proc["p1"].stateAtStart = Snap("earlier", 0)
    /\ stateFile.by = "p1"

====
